---- MODULE Spec2Model ----
(***************************************************************************)
(* A model of the measurement plug-in service: the call logger and the     *)
(* logging interceptors of                                                 *)
(* grpc/loggers.py, the per-call MeasurementServiceContext, the parameter  *)
(* binder and the Measure and GetMetadata handlers of                      *)
(* _internal/grpc_servicer.py, the declarations, listen(),                *)
(* close_service() and the lazily created collaborators of                 *)
(* measurement/service.py, and GrpcService.start and stop of               *)
(* _internal/service_manager.py.                                           *)
(*                                                                         *)
(* Each component has its own specification over one shared set of         *)
(* variables; a specification leaves the other components' variables at    *)
(* their constructed values.                                               *)
(***************************************************************************)
EXTENDS Integers, Sequences, FiniteSets, TLC

(***************************************************************************)
(* Bounds of the model.                                                    *)
(***************************************************************************)
NumThreads == 2
NumLoggers == 2
MaxCloses == 2

Threads == 1..NumThreads
Loggers == 1..NumLoggers

\* The values close() accepts for its exception argument: None or an exception.
Outcomes == {"None", "Exception"}

VARIABLES
    \* ---- grpc/loggers.py : _CallLogger ----
    closed,       \* closed[l]   : _CallLogger._closed of logger l
    lock,         \* the threads holding the class-wide _CallLogger._lock
    closePc,      \* closePc[t]  : where thread t stands inside close()
    closeArg,     \* closeArg[t] : the logger and the exception of t's close() call
    closeCalls,   \* closeCalls[l] : how many close() calls on l were started
    emitted       \* emitted[l]  : the exceptions _close(exception) was run with

VARIABLES
    \* ---- _internal/grpc_servicer.py : one MeasurementServiceContext ----
    is_complete,  \* MeasurementServiceContext._is_complete
    grpcCancelled,\* whether self._grpc_context.cancel() was invoked
    cancelCall,   \* the cancel() call in progress or last made on the context
    callbacks,    \* the grpc_callback closures given to self._grpc_context.add_callback
    abortCall     \* the last abort(code, details) call made on the context

VARIABLES
    \* ---- _internal/grpc_servicer.py : _get_mapping_by_parameter_name ----
    signature,    \* inspect.signature(measure_function): per parameter, the marker
                  \* names its annotation's text contains
    mapping_by_id,\* the decoded configuration: ordinal -> value
    bindResult    \* the binder call: not made yet, the exception raised, or the kwargs

VARIABLES
    \* ---- _internal/grpc_servicer.py : MeasurementServiceServicerV3 ----
    configuration_metadata, \* the ordinals frame_metadata_dict gave the declared parameters
    measurePc,    \* measurePc[k]   : where call k stands inside Measure
    request,      \* request[k]     : the request argument of call k
    warned,       \* warned[k]      : whether call k emitted WrongMessageTypeWarning
    decoded,      \* decoded[k]     : call k's local mapping_by_id
    measureRaised,\* measureRaised[k] : the exception call k ended with, or "none"
    routineCall   \* routineCall[k] : the kwargs call k invoked self._measure_function with

VARIABLES
    \* ---- measurement/service.py : the declarations of a MeasurementService, and
    \* ---- _internal/grpc_servicer.py : the servicer built from them, GetMetadata ----
    configuration_parameter_list, \* MeasurementService._configuration_parameter_list
    input_parameter_list,   \* MeasurementService._input_parameter_list, a dict in insertion order
    output_parameter_list,  \* MeasurementService._output_parameter_list, a dict in insertion order
    ui_file_paths,          \* MeasurementInfo.ui_file_paths
    servicer_v3,            \* the MeasurementServiceServicerV3 the service start built, if any
    describeResult,         \* what the last GetMetadata call returned or raised
    describeCalls,          \* how many GetMetadata calls were made
    declaredSinceDescribe,  \* whether a declaration was made after the last GetMetadata call
    repeatedDescribe        \* whether the last GetMetadata call followed another one with
                            \* no declaration in between

VARIABLES
    \* ---- measurement/service.py : MeasurementService as a host, and
    \* ---- _internal/service_manager.py : its GrpcService ----
    measure_function,   \* MeasurementService._measure_function
    provided_interfaces,\* ServiceInfo.provided_interfaces
    initialization_lock,\* the threads holding MeasurementService._initialization_lock
    channel_pool,       \* MeasurementService._channel_pool: None or the pool created
    discovery_client,   \* MeasurementService._discovery_client: None or the client created
    grpc_service,       \* MeasurementService._grpc_service: None or the GrpcService
    serversCreated,     \* how many times grpc.server(...) was called
    registered,         \* the registrations the discovery service holds
    listenPc,           \* listenPc[t]     : where thread t stands inside listen()
    listenPort,         \* listenPort[t]   : the port argument of t's listen() call
    listenResult,       \* listenResult[t] : how t's last listen() call ended
    listenCalls         \* how many listen() calls were started

VARIABLES
    \* ---- measurement/service.py : close_service and service_location, and
    \* ---- _internal/service_manager.py : GrpcService.stop ----
    stopPc,             \* stopPc[t]      : where thread t stands inside close_service()
    stopRunning,        \* stopRunning[t] : whether the host was running when t's call began
    stopResult,         \* stopResult[t]  : how t's last close_service() call ended
    stopCalls,          \* how many close_service() calls were started
    unregistered,       \* the registration ids unregister_service was called with
    serverStops,        \* the grace periods server.stop(grace) was called with
    poolsClosed,        \* how many times a channel pool's close() was called
    locationResult      \* what the last read of MeasurementService.service_location gave

VARIABLES
    \* ---- grpc/loggers.py : one call through ClientLogger or ServerLogger ----
    logLevel,           \* the effective level of the module's _logger
    tracelogging,       \* what _tracelogging.is_enabled() returns
    rpcSide,            \* whether the call goes through ClientLogger or ServerLogger
    rpcShape,           \* which of the four shapes the call has
    rpcPc,              \* where the call stands
    enabledChecks,      \* how many times is_enabled() was called
    callLoggers,        \* how many call loggers were constructed
    rpcClosed,          \* _closed of the call's logger
    rpcLog,             \* what the call's logger emitted, in order
    rpcContinuation,    \* what the continuation returned or raised
    rpcReturned,        \* what the interceptor returned or raised
    requestStream,      \* the caller's request iterator
    responseStream,     \* the inner response iterator
    accessors,          \* the accessors invoked on the returned future: how many calls, which
    rpcEnd              \* how the call ended

VARIABLES
    \* ---- measurement/service.py : the lazily created collaborators ----
    session_management_client, \* MeasurementService._session_management_client
    poolsCreated,          \* how many GrpcChannelPool objects the properties created
    clientsCreated,        \* how many DiscoveryClient objects the properties created
    sessionClientsCreated, \* how many SessionManagementClient objects were created
    readPc,                \* readPc[t]     : where thread t stands inside a property
    readResult,            \* readResult[t] : the property t reads or read last, what it
                           \* returned, and whether a close_service() had returned before
    readCalls              \* how many property reads were started

loggerVars == <<closed, lock, closePc, closeArg, closeCalls, emitted>>
contextVars == <<is_complete, grpcCancelled, cancelCall, callbacks, abortCall>>
binderVars == <<signature, mapping_by_id, bindResult>>
servicerVars == <<configuration_metadata, measurePc, request, warned, decoded,
                  measureRaised, routineCall>>
hostVars == <<measure_function, provided_interfaces, initialization_lock, channel_pool,
              discovery_client, grpc_service, serversCreated, registered, listenPc,
              listenPort, listenResult, listenCalls>>
stopVars == <<stopPc, stopRunning, stopResult, stopCalls, unregistered, serverStops,
              poolsClosed, locationResult>>
collabVars == <<session_management_client, poolsCreated, clientsCreated,
                sessionClientsCreated, readPc, readResult, readCalls>>
rpcVars == <<logLevel, tracelogging, rpcSide, rpcShape, rpcPc, enabledChecks, callLoggers,
             rpcClosed, rpcLog, rpcContinuation, rpcReturned, requestStream, responseStream,
             accessors, rpcEnd>>
describeVars == <<configuration_parameter_list, input_parameter_list, output_parameter_list,
                  ui_file_paths, servicer_v3, describeResult, describeCalls,
                  declaredSinceDescribe, repeatedDescribe>>

\* What a step of one component leaves alone: the other components' variables.
LoggerFrame == UNCHANGED <<contextVars, binderVars, servicerVars, describeVars, hostVars, stopVars,
    rpcVars, collabVars>>
ContextFrame == UNCHANGED <<loggerVars, binderVars, servicerVars, describeVars, hostVars, stopVars,
    rpcVars, collabVars>>
BinderFrame == UNCHANGED <<loggerVars, contextVars, servicerVars, describeVars, hostVars, stopVars,
    rpcVars, collabVars>>
ServicerFrame == UNCHANGED <<loggerVars, contextVars, binderVars, describeVars, hostVars, stopVars,
    rpcVars, collabVars>>
DescribeFrame == UNCHANGED <<loggerVars, contextVars, binderVars, servicerVars, hostVars, stopVars,
    rpcVars, collabVars>>
HostFrame == UNCHANGED <<loggerVars, contextVars, binderVars, servicerVars, describeVars,
    rpcVars, collabVars>>
RpcFrame == UNCHANGED <<loggerVars, contextVars, binderVars, servicerVars, describeVars,
    hostVars, stopVars, collabVars>>

vars == <<closed, lock, closePc, closeArg, closeCalls, emitted,
          is_complete, grpcCancelled, cancelCall, callbacks, abortCall,
          signature, mapping_by_id, bindResult,
          configuration_metadata, measurePc, request, warned, decoded,
          measureRaised, routineCall,
          configuration_parameter_list, input_parameter_list, output_parameter_list,
          ui_file_paths, servicer_v3, describeResult, describeCalls,
          declaredSinceDescribe, repeatedDescribe,
          measure_function, provided_interfaces, initialization_lock, channel_pool,
          discovery_client, grpc_service, serversCreated, registered, listenPc,
          listenPort, listenResult, listenCalls,
          stopPc, stopRunning, stopResult, stopCalls, unregistered, serverStops,
          poolsClosed, locationResult,
          logLevel, tracelogging, rpcSide, rpcShape, rpcPc, enabledChecks, callLoggers,
          rpcClosed, rpcLog, rpcContinuation, rpcReturned, requestStream, responseStream,
          accessors, rpcEnd,
          session_management_client, poolsCreated, clientsCreated, sessionClientsCreated,
          readPc, readResult, readCalls>>

(***************************************************************************)
(* _CallLogger (grpc/loggers.py)                                           *)
(***************************************************************************)
NoArg == [logger |-> 0, exception |-> "None"]

\* _CallLogger.__init__: self._closed = False; the class attribute _lock is free.
LoggerInit ==
    /\ closed = [l \in Loggers |-> FALSE]
    /\ lock = {}
    /\ closePc = [t \in Threads |-> "idle"]
    /\ closeArg = [t \in Threads |-> NoArg]
    /\ closeCalls = [l \in Loggers |-> 0]
    /\ emitted = [l \in Loggers |-> <<>>]

\* A lock that excludes no one: acquire always succeeds.
LockNeverHeld == TRUE

\* threading.Lock: acquire succeeds only while no thread holds the lock.
LockIsFree == lock = {}

\* A thread calls close(exception) on logger l and reaches "with _CallLogger._lock".
CloseCall(t, l, e) ==
    /\ closePc[t] = "idle"
    /\ closeCalls[l] < MaxCloses
    /\ closePc' = [closePc EXCEPT ![t] = "acquire"]
    /\ closeArg' = [closeArg EXCEPT ![t] = [logger |-> l, exception |-> e]]
    /\ closeCalls' = [closeCalls EXCEPT ![l] = @ + 1]
    /\ UNCHANGED <<closed, lock, emitted>>
    /\ LoggerFrame

\* with _CallLogger._lock: (enter)
CloseAcquire(t) ==
    /\ closePc[t] = "acquire"
    /\ LockIsFree
    /\ lock' = lock \cup {t}
    /\ closePc' = [closePc EXCEPT ![t] = "check"]
    /\ UNCHANGED <<closed, closeArg, closeCalls, emitted>>
    /\ LoggerFrame

\* if self._closed:
AlreadyClosed(l) == closed[l]

\* if self._closed: return     (leaving the with block releases the lock)
CloseCheck(t) ==
    /\ closePc[t] = "check"
    /\ IF AlreadyClosed(closeArg[t].logger)
       THEN /\ lock' = lock \ {t}
            /\ closePc' = [closePc EXCEPT ![t] = "idle"]
            /\ closeArg' = [closeArg EXCEPT ![t] = NoArg]
       ELSE /\ closePc' = [closePc EXCEPT ![t] = "set"]
            /\ UNCHANGED <<lock, closeArg>>
    /\ UNCHANGED <<closed, closeCalls, emitted>>
    /\ LoggerFrame

\* self._closed = True
CloseSet(t) ==
    /\ closePc[t] = "set"
    /\ closed' = [closed EXCEPT ![closeArg[t].logger] = TRUE]
    /\ closePc' = [closePc EXCEPT ![t] = "release"]
    /\ UNCHANGED <<lock, closeArg, closeCalls, emitted>>
    /\ LoggerFrame

\* the end of the with block: the lock is released
CloseRelease(t) ==
    /\ closePc[t] = "release"
    /\ lock' = lock \ {t}
    /\ closePc' = [closePc EXCEPT ![t] = "emit"]
    /\ UNCHANGED <<closed, closeArg, closeCalls, emitted>>
    /\ LoggerFrame

\* self._close(exception): the call-complete record is logged, outside the lock
CloseEmit(t) ==
    /\ closePc[t] = "emit"
    /\ emitted' = [emitted EXCEPT ![closeArg[t].logger] = Append(@, closeArg[t].exception)]
    /\ closePc' = [closePc EXCEPT ![t] = "idle"]
    /\ closeArg' = [closeArg EXCEPT ![t] = NoArg]
    /\ UNCHANGED <<closed, lock, closeCalls>>
    /\ LoggerFrame

LoggerNext ==
    \/ \E t \in Threads, l \in Loggers, e \in Outcomes : CloseCall(t, l, e)
    \/ \E t \in Threads : CloseAcquire(t)
    \/ \E t \in Threads : CloseCheck(t)
    \/ \E t \in Threads : CloseSet(t)
    \/ \E t \in Threads : CloseRelease(t)
    \/ \E t \in Threads : CloseEmit(t)

(***************************************************************************)
(* MeasurementServiceContext (_internal/grpc_servicer.py)                  *)
(*                                                                         *)
(* The server is grpc.server over a thread pool (service_manager.py), so   *)
(* the transport runs the callbacks it was given on a thread of its own    *)
(* while the call's thread and the routine's threads use the context. No   *)
(* method of the context takes a lock: a method is one step per statement  *)
(* that reads or writes _is_complete or calls the transport.               *)
(***************************************************************************)
MaxCallbacks == 2

\* grpc.StatusCode values and detail strings passed to abort().
Codes == {"INTERNAL", "FAILED_PRECONDITION"}
Details == {"d1", "d2"}

\* What self._grpc_context.abort raises: a bare Exception, as grpc's server
\* context does, or an exception of another type.
TransportAbortRaises == {"Exception", "ValueError"}

NoCancelCall == [pc |-> "none", late |-> FALSE, invoked |-> FALSE]
NoAbortCall == [made |-> FALSE, late |-> FALSE, transport |-> FALSE,
                raised |-> "none", code |-> "none", details |-> "none"]

\* MeasurementServiceContext.__init__: self._is_complete = False
ContextInit ==
    /\ is_complete = FALSE
    /\ grpcCancelled = FALSE
    /\ cancelCall = NoCancelCall
    /\ callbacks = <<>>
    /\ abortCall = NoAbortCall

\* mark_complete: self._is_complete = True
mark_complete ==
    /\ is_complete' = TRUE
    /\ UNCHANGED <<grpcCancelled, cancelCall, callbacks, abortCall>>
    /\ ContextFrame

\* The guards with the completion flag left unread.
IsCompleteIgnored == FALSE

\* The value the guards "if not self._is_complete" read.
IsCompleteRead == is_complete

\* add_cancel_callback(cancel_callback): wraps the callback in grpc_callback and
\* hands it to self._grpc_context.add_callback. "late" records whether the context
\* was already complete when the callback was registered.
add_cancel_callback ==
    /\ Len(callbacks) < MaxCallbacks
    /\ callbacks' = Append(callbacks,
                           [late |-> is_complete, st |-> "registered", ranComplete |-> FALSE])
    /\ UNCHANGED <<is_complete, grpcCancelled, cancelCall, abortCall>>
    /\ ContextFrame

\* The transport invokes grpc_callback number k: "if not self._is_complete:"
grpc_callback_check(k) ==
    /\ callbacks[k].st = "registered"
    /\ callbacks' = [callbacks EXCEPT ![k].st = IF IsCompleteRead THEN "skipped" ELSE "passed"]
    /\ UNCHANGED <<is_complete, grpcCancelled, cancelCall, abortCall>>
    /\ ContextFrame

\* grpc_callback number k, past its guard: "cancel_callback()". ranComplete records
\* whether the context was complete when the user's callback was entered.
grpc_callback_run(k) ==
    /\ callbacks[k].st = "passed"
    /\ callbacks' = [callbacks EXCEPT ![k].st = "ran", ![k].ranComplete = is_complete]
    /\ UNCHANGED <<is_complete, grpcCancelled, cancelCall, abortCall>>
    /\ ContextFrame

\* cancel(): "if not self._is_complete:". "late" records whether the context was
\* complete when cancel() was called.
cancel_check ==
    /\ cancelCall.pc # "invoke"
    /\ cancelCall' = [pc |-> IF IsCompleteRead THEN "returned" ELSE "invoke",
                      late |-> is_complete, invoked |-> FALSE]
    /\ UNCHANGED <<is_complete, grpcCancelled, callbacks, abortCall>>
    /\ ContextFrame

\* cancel(), past its guard: "self._grpc_context.cancel()"
cancel_invoke ==
    /\ cancelCall.pc = "invoke"
    /\ grpcCancelled' = TRUE
    /\ cancelCall' = [cancelCall EXCEPT !.pc = "returned", !.invoked = TRUE]
    /\ UNCHANGED <<is_complete, callbacks, abortCall>>
    /\ ContextFrame

\* abort() with every exception of the transport re-raised as it is.
AbortReraises(r) == r

\* The exception abort() leaves with when the transport's abort raised r:
\* a bare Exception is replaced by CustomRpcError(code, details), any other is re-raised.
AbortRaises(r) == IF r = "Exception" THEN "CustomRpcError" ELSE r

\* abort(code, details): self._grpc_context.abort(code, details) is called whatever
\* _is_complete holds, and what it raises leaves abort().
abort(code, details, r) ==
    /\ abortCall' = [made |-> TRUE, late |-> is_complete, transport |-> TRUE,
                     raised |-> AbortRaises(r),
                     code |-> IF r = "Exception" THEN code ELSE "none",
                     details |-> IF r = "Exception" THEN details ELSE "none"]
    /\ UNCHANGED <<is_complete, grpcCancelled, cancelCall, callbacks>>
    /\ ContextFrame

ContextNext ==
    \/ mark_complete
    \/ add_cancel_callback
    \/ \E k \in DOMAIN callbacks : grpc_callback_check(k)
    \/ \E k \in DOMAIN callbacks : grpc_callback_run(k)
    \/ cancel_check
    \/ cancel_invoke
    \/ \E code \in Codes, details \in Details, r \in TransportAbortRaises : abort(code, details, r)


(***************************************************************************)
(* _get_mapping_by_parameter_name (_internal/grpc_servicer.py)             *)
(*                                                                         *)
(* A signature is the sequence of its parameters; a parameter is the set   *)
(* of marker names its annotation's text contains ({} when it has no       *)
(* annotation or one that names neither marker). Parameter names are       *)
(* unique in a Python signature, so kwargs is modelled by position.        *)
(***************************************************************************)
MaxParams == 3
MaxConfig == 2

Markers == {"MeasureRequest", "ServicerContext"}
ConfigValues == {"a", "b"}

RECURSIVE SeqsUpTo(_, _)
SeqsUpTo(S, n) ==
    IF n = 0 THEN {<<>>}
    ELSE LET shorter == SeqsUpTo(S, n - 1)
         IN  shorter \cup {Append(q, x) : q \in {r \in shorter : Len(r) = n - 1}, x \in S}

Signatures == SeqsUpTo(SUBSET Markers, MaxParams)
Mappings == UNION {[1..n -> ConfigValues] : n \in 0..MaxConfig}

\* The values the binder binds a parameter to.
RequestIteratorValue == [tag |-> "request_iterator", ordinal |-> 0, value |-> "-"]
ContextValue == [tag |-> "context", ordinal |-> 0, value |-> "-"]
ConfigValue(k, v) == [tag |-> "config", ordinal |-> k, value |-> v]
Unbound == [tag |-> "unbound", ordinal |-> 0, value |-> "-"]

\* How a call ends: it returns kwargs or raises.
Returns(kwargs) == [state |-> "returned", raised |-> "none", kwargs |-> kwargs]
Raises(e) == [state |-> "raised", raised |-> e, kwargs |-> <<>>]
Pending == [state |-> "pending", raised |-> "none", kwargs |-> <<>>]

\* '"MeasureRequest" in str(parameter.annotation)'
IsRequestAnnotation(a) == "MeasureRequest" \in a

\* 'elif "ServicerContext" in str(parameter.annotation)'
IsContextAnnotation(a) == ~IsRequestAnnotation(a) /\ "ServicerContext" \in a

\* The first loop: the annotated parameters are bound and the two flags set.
AnnotatedBindings(sig) ==
    [i \in 1..Len(sig) |->
        IF IsRequestAnnotation(sig[i]) THEN RequestIteratorValue
        ELSE IF IsContextAnnotation(sig[i]) THEN ContextValue
        ELSE Unbound]

found_request_iterator(sig) == \E i \in 1..Len(sig) : IsRequestAnnotation(sig[i])
found_context(sig) == \E i \in 1..Len(sig) : IsContextAnnotation(sig[i])

\* The second loop, from parameter i on, with config_i the next ordinal and acc the
\* kwargs so far. Every parameter is assigned by one of the three branches, whether
\* or not the first loop bound it; mapping_by_id[config_i] raises KeyError for an
\* ordinal the decoded configuration does not hold.
RECURSIVE PositionalBindings(_, _, _, _, _)
PositionalBindings(sig, byId, i, config_i, acc) ==
    IF i > Len(sig) THEN Returns(acc)
    ELSE IF ~found_request_iterator(sig) /\ i = 1
         THEN PositionalBindings(sig, byId, i + 1, config_i,
                                 [acc EXCEPT ![i] = RequestIteratorValue])
    ELSE IF ~found_context(sig) /\ i = Len(sig)
         THEN PositionalBindings(sig, byId, i + 1, config_i,
                                 [acc EXCEPT ![i] = ContextValue])
    ELSE IF config_i \notin DOMAIN byId THEN Raises("KeyError")
    ELSE PositionalBindings(sig, byId, i + 1, config_i + 1,
                            [acc EXCEPT ![i] = ConfigValue(config_i, byId[config_i])])

\* _get_mapping_by_parameter_name(mapping_by_id, request_iterator, context,
\* measure_function): the kwargs, or the exception raised.
get_mapping_by_parameter_name(byId, sig) ==
    PositionalBindings(sig, byId, 1, 1, AnnotatedBindings(sig))

\* The number of positional parameters the binder declares.
BinderArity == 4

\* A Python call of the binder with the positional arguments args: a call that
\* does not supply every required parameter raises TypeError before the body runs.
\* A full call passes <<mapping_by_id, request_iterator, context, measure_function>>.
CallBinder(args) ==
    IF Len(args) # BinderArity THEN Raises("TypeError")
    ELSE get_mapping_by_parameter_name(args[1], args[4])

\* Any registered routine and any decoded configuration.
BinderInit ==
    /\ signature \in Signatures
    /\ mapping_by_id \in Mappings
    /\ bindResult = Pending

BinderIdle ==
    /\ signature = <<>>
    /\ mapping_by_id = <<>>
    /\ bindResult = Pending

\* The binder is called with its four arguments.
Bind ==
    /\ bindResult = Pending
    /\ bindResult' = CallBinder(<<mapping_by_id, "request_iterator", "context", signature>>)
    /\ UNCHANGED <<signature, mapping_by_id>>
    /\ BinderFrame

BinderNext == Bind

(***************************************************************************)
(* MeasurementServiceServicerV3.Measure (_internal/grpc_servicer.py)       *)
(*                                                                         *)
(* The body of the Measure generator, one step per statement that can      *)
(* raise. Calls run concurrently, each on its own thread.                  *)
(***************************************************************************)
NumCalls == 2
Calls == 1..NumCalls

\* What the transport or a direct caller passes as "request": the stub registers
\* Measure as a stream-stream handler, which is given the request iterator; the
\* body reads request.configuration_parameters, which only a MeasureRequest
\* message has.
RequestKinds == {"message", "iterator"}

\* frame_metadata_dict(parameter_list): the i-th declared parameter gets key i.
frame_metadata_dict(n) == 1..n

NoRequest == [kind |-> "none", type_url_ok |-> FALSE, decodable |-> FALSE, values |-> <<>>]

\* The requests a call can carry: the declared type URL matches the expected one
\* or not, and the payload decodes to a value per declared ordinal or does not decode.
Requests ==
    {[kind |-> kd, type_url_ok |-> u, decodable |-> TRUE, values |-> v] :
        kd \in RequestKinds, u \in BOOLEAN, v \in [configuration_metadata -> ConfigValues]}
    \cup
    {[kind |-> kd, type_url_ok |-> u, decodable |-> FALSE, values |-> <<>>] :
        kd \in RequestKinds, u \in BOOLEAN}

\* MeasurementServiceServicerV3.__init__ with any routine and any number of
\* declared configuration parameters; no call has arrived.
ServicerInit ==
    /\ configuration_metadata \in {frame_metadata_dict(n) : n \in 0..MaxConfig}
    /\ measurePc = [k \in Calls |-> "idle"]
    /\ request = [k \in Calls |-> NoRequest]
    /\ warned = [k \in Calls |-> FALSE]
    /\ decoded = [k \in Calls |-> <<>>]
    /\ measureRaised = [k \in Calls |-> "none"]
    /\ routineCall = [k \in Calls |-> Pending]

ServicerIdle ==
    /\ configuration_metadata = frame_metadata_dict(0)
    /\ measurePc = [k \in Calls |-> "idle"]
    /\ request = [k \in Calls |-> NoRequest]
    /\ warned = [k \in Calls |-> FALSE]
    /\ decoded = [k \in Calls |-> <<>>]
    /\ measureRaised = [k \in Calls |-> "none"]
    /\ routineCall = [k \in Calls |-> Pending]

\* Call k ends with exception e.
MeasureFails(k, e) ==
    /\ measurePc' = [measurePc EXCEPT ![k] = "failed"]
    /\ measureRaised' = [measureRaised EXCEPT ![k] = e]

\* Measure(request, context) is entered by call k.
MeasureEnter(k, req) ==
    /\ measurePc[k] = "idle"
    /\ measurePc' = [measurePc EXCEPT ![k] = "validate"]
    /\ request' = [request EXCEPT ![k] = req]
    /\ UNCHANGED <<configuration_metadata, warned, decoded, measureRaised, routineCall>>
    /\ ServicerFrame

\* self._validate_parameters(request): reading request.configuration_parameters
\* raises AttributeError on an iterator; a type URL other than the expected one
\* is warned about and the call goes on.
validate_parameters(k) ==
    /\ measurePc[k] = "validate"
    /\ IF request[k].kind # "message"
       THEN /\ MeasureFails(k, "AttributeError")
            /\ UNCHANGED warned
       ELSE /\ warned' = [warned EXCEPT ![k] = ~request[k].type_url_ok]
            /\ measurePc' = [measurePc EXCEPT ![k] = "decode"]
            /\ UNCHANGED measureRaised
    /\ UNCHANGED <<configuration_metadata, request, decoded, routineCall>>
    /\ ServicerFrame

\* mapping_by_id = decoder.deserialize_parameters(...): a value per declared
\* ordinal, or the decoder's exception.
deserialize_parameters(k) ==
    /\ measurePc[k] = "decode"
    /\ IF request[k].decodable
       THEN /\ decoded' = [decoded EXCEPT ![k] = request[k].values]
            /\ measurePc' = [measurePc EXCEPT ![k] = "bind"]
            /\ UNCHANGED measureRaised
       ELSE /\ MeasureFails(k, "DecodeError")
            /\ UNCHANGED decoded
    /\ UNCHANGED <<configuration_metadata, request, warned, routineCall>>
    /\ ServicerFrame

\* The binder called with its four parameters filled in: mapping_by_id, the request
\* iterator, the context and the routine.
MeasureBinderArgsAll(k) == <<decoded[k], <<>>, <<>>, signature>>

\* The positional arguments Measure passes to the binder:
\* _get_mapping_by_parameter_name(mapping_by_id, self._measure_function)
MeasureBinderArgs(k) == <<decoded[k], signature>>

\* mapping_by_variable_name = _get_mapping_by_parameter_name(...): the call raises
\* or returns the kwargs. The statements after it (the context is published, the
\* routine is invoked and its results forwarded, the context is marked complete
\* and unpublished) run only when it returns.
MeasureBind(k) ==
    /\ measurePc[k] = "bind"
    /\ LET r == CallBinder(MeasureBinderArgs(k))
       IN  IF r.state = "raised"
           THEN MeasureFails(k, r.raised)
           ELSE /\ measurePc' = [measurePc EXCEPT ![k] = "publish"]
                /\ UNCHANGED measureRaised
    /\ UNCHANGED <<configuration_metadata, request, warned, decoded, routineCall>>
    /\ ServicerFrame

\* No call gets past the binder call: the statements of Measure after it never run.
MeasureNeverPublishes == \A k \in Calls : measurePc[k] # "publish"

ServicerNext ==
    \/ \E k \in Calls : \E req \in Requests : MeasureEnter(k, req)
    \/ \E k \in Calls : validate_parameters(k)
    \/ \E k \in Calls : deserialize_parameters(k)
    \/ \E k \in Calls : MeasureBind(k)

(***************************************************************************)
(* The declarations of a MeasurementService (measurement/service.py) and   *)
(* MeasurementServiceServicerV3.GetMetadata (_internal/grpc_servicer.py)   *)
(*                                                                         *)
(* A Python str is modelled as the sequence of its pieces: a display name  *)
(* is spelled letter by letter, because GetMetadata unpacks the keys of    *)
(* the input and output dicts; a type URL is one piece. A dict is the      *)
(* sequence of its entries in insertion order.                             *)
(***************************************************************************)
MaxDeclared == 2
MaxDescribes == 2

\* Display names of inputs and outputs: one of two letters and a longer one.
DisplayNames == {<<"I", "n">>, <<"O", "u", "t">>}

MonikerTypes == {"ScalarData", "ScalarArray", "String2DArray", "Double2DArray",
                 "DoubleXYData", "DoubleAnalogWaveform"}

\* MonikerType.to_url
to_url(type) ==
    CASE type = "ScalarData" -> <<"type.googleapis.com/ni.measurements.data.v1.ScalarData">>
      [] type = "ScalarArray" -> <<"type.googleapis.com/ni.measurements.data.v1.ScalarArray">>
      [] type = "String2DArray" -> <<"type.googleapis.com/ni.protobuf.types.String2DArray">>
      [] type = "Double2DArray" -> <<"type.googleapis.com/ni.protobuf.types.Double2DArray">>
      [] type = "DoubleXYData" -> <<"type.googleapis.com/ni.protobuf.types.DoubleXYData">>
      [] type = "DoubleAnalogWaveform" ->
             <<"type.googleapis.com/ni.protobuf.types.DoubleAnalogWaveform">>

\* The moniker types the modelled declarations use: of inputs, and of outputs.
DeclaredMonikerTypes == {"ScalarData", "DoubleXYData"}
DeclaredOutputTypes == {"ScalarArray"}

\* The ParameterMetadata that configuration() builds for
\* ("Voltage", DataType.Double, 5.0) and
\* ("Pin Names", DataType.IOResourceArray1D, ["Pin1"]).
DeclarableParameters ==
    {[display_name |-> "Voltage", type |-> "TYPE_DOUBLE", repeated |-> FALSE,
      default_value |-> "5.0", annotations |-> {}, message_type |-> ""],
     [display_name |-> "Pin Names", type |-> "TYPE_STRING", repeated |-> TRUE,
      default_value |-> "[Pin1]",
      annotations |-> {"ni/type_specialization=ioresource", "ni/ioresource.instrument_type="},
      message_type |-> ""]}

\* MeasurementInfo.ui_file_paths: a path is absolute or relative.
UiFileLists == {<<>>, <<[absolute |-> TRUE]>>, <<[absolute |-> FALSE]>>}

\* d[key] = value on a dict: an existing key keeps its place, a new key goes last.
DictSet(d, key, value) ==
    IF \E i \in 1..Len(d) : d[i].key = key
    THEN [i \in 1..Len(d) |->
             IF d[i].key = key THEN [key |-> key, value |-> value] ELSE d[i]]
    ELSE Append(d, [key |-> key, value |-> value])

\* for i, parameter in enumerate(parameter_list, start=...): metadata_dict[i] = parameter
RECURSIVE FrameLoop(_, _, _)
FrameLoop(parameter_list, i, metadata_dict) ==
    IF parameter_list = <<>>
    THEN metadata_dict
    ELSE FrameLoop(Tail(parameter_list), i + 1,
                   DictSet(metadata_dict, i, Head(parameter_list)))

\* A frame_metadata_dict whose enumeration starts at 0.
frame_metadata_from_zero(parameter_list) == FrameLoop(parameter_list, 0, <<>>)

\* frame_metadata_dict(parameter_list), with the parameters it maps the ordinals to.
frame_metadata(parameter_list) == FrameLoop(parameter_list, 1, <<>>)

MeasurementDisplayName == "Sample Measurement"
service_class == "ni.examples.SampleMeasurement_Python"

NotConstructed ==
    [constructed |-> FALSE, configuration_metadata |-> <<>>,
     display_name |-> "", configuration_parameters_message_type |-> <<>>]

NoResponse ==
    [display_name |-> "", configuration_parameters_message_type |-> <<>>,
     inputs |-> <<>>, outputs |-> <<>>, configuration_parameters |-> <<>>,
     configuration_defaults |-> <<>>, user_interface_details |-> <<>>]

NotDescribed == [state |-> "none", raised |-> "none", response |-> NoResponse]
DescribeReturns(response) == [state |-> "returned", raised |-> "none", response |-> response]
DescribeRaises(e) == [state |-> "raised", raised |-> e, response |-> NoResponse]

\* MeasurementService.__init__: nothing is declared; any list of UI files.
DescribeInit ==
    /\ configuration_parameter_list = <<>>
    /\ input_parameter_list = <<>>
    /\ output_parameter_list = <<>>
    /\ ui_file_paths \in UiFileLists
    /\ servicer_v3 = NotConstructed
    /\ describeResult = NotDescribed
    /\ describeCalls = 0
    /\ declaredSinceDescribe = FALSE
    /\ repeatedDescribe = FALSE

DescribeIdle ==
    /\ configuration_parameter_list = <<>>
    /\ input_parameter_list = <<>>
    /\ output_parameter_list = <<>>
    /\ ui_file_paths = <<>>
    /\ servicer_v3 = NotConstructed
    /\ describeResult = NotDescribed
    /\ describeCalls = 0
    /\ declaredSinceDescribe = FALSE
    /\ repeatedDescribe = FALSE

\* MeasurementService.configuration(display_name, type, default_value, ...) with a
\* supported type: the parameter goes to the end of the list. (An unsupported
\* type raises ValueError before the list is touched.)
configuration(parameter) ==
    /\ Len(configuration_parameter_list) < MaxDeclared
    /\ configuration_parameter_list' = Append(configuration_parameter_list, parameter)
    /\ declaredSinceDescribe' = TRUE
    /\ UNCHANGED <<input_parameter_list, output_parameter_list, ui_file_paths,
                   servicer_v3, describeResult, describeCalls, repeatedDescribe>>
    /\ DescribeFrame

\* MeasurementService.input(display_name, type)
input(display_name, type) ==
    /\ input_parameter_list' = DictSet(input_parameter_list, display_name, to_url(type))
    /\ declaredSinceDescribe' = TRUE
    /\ UNCHANGED <<configuration_parameter_list, output_parameter_list, ui_file_paths,
                   servicer_v3, describeResult, describeCalls, repeatedDescribe>>
    /\ DescribeFrame

\* MeasurementService.output(display_name, type)
output(display_name, type) ==
    /\ output_parameter_list' = DictSet(output_parameter_list, display_name, to_url(type))
    /\ declaredSinceDescribe' = TRUE
    /\ UNCHANGED <<configuration_parameter_list, input_parameter_list, ui_file_paths,
                   servicer_v3, describeResult, describeCalls, repeatedDescribe>>
    /\ DescribeFrame

\* MeasurementServiceServicerV3.__init__, as GrpcService.start calls it: the
\* configuration list is framed into a new dict; the input and output dicts are
\* kept by reference, so the servicer reads the service's own dicts.
ServicerV3Init ==
    /\ ~servicer_v3.constructed
    /\ servicer_v3' =
           [constructed |-> TRUE,
            configuration_metadata |-> frame_metadata(configuration_parameter_list),
            display_name |-> MeasurementDisplayName,
            configuration_parameters_message_type |-> <<service_class, ".Configurations">>]
    /\ UNCHANGED <<configuration_parameter_list, input_parameter_list,
                   output_parameter_list, ui_file_paths, describeResult, describeCalls,
                   declaredSinceDescribe, repeatedDescribe>>
    /\ DescribeFrame

\* [DataValueMetadata(name=name, type_url=type_url) for name, type_url in parameters]:
\* iterating a dict yields its keys, and each key, a str, is unpacked into the
\* two names; a key of any other length than 2 raises ValueError.
DataValueMetadataList(parameters) ==
    IF \E i \in 1..Len(parameters) : Len(parameters[i].key) # 2
    THEN Raises("ValueError")
    ELSE Returns([i \in 1..Len(parameters) |->
                     [name |-> <<parameters[i].key[1]>>,
                      type_url |-> <<parameters[i].key[2]>>]])

\* The ConfigurationParameter messages built from self._configuration_metadata.items()
ConfigurationParameters(metadata) ==
    [i \in 1..Len(metadata) |->
        [field_number |-> metadata[i].key,
         name |-> metadata[i].value.display_name,
         repeated |-> metadata[i].value.repeated,
         type |-> metadata[i].value.type,
         annotations |-> metadata[i].value.annotations,
         message_type |-> metadata[i].value.message_type]]

\* encoder.serialize_default_values(self._configuration_metadata, message_type):
\* the composite record holding, per ordinal of the mapping, that parameter's default.
serialize_default_values(metadata) ==
    [i \in 1..Len(metadata) |->
        [field_number |-> metadata[i].key, value |-> metadata[i].value.default_value]]

\* The UserInterfaceDetails built from pathlib.Path(ui_file_path).as_uri(), which
\* raises ValueError for a relative path.
UserInterfaceDetails(paths) ==
    IF \E i \in 1..Len(paths) : ~paths[i].absolute
    THEN Raises("ValueError")
    ELSE Returns([i \in 1..Len(paths) |-> [file_url |-> "file:///measurement.measui"]])

\* A signature message that is carried over from the call before.
ReusedSignature(previous) == previous.response.configuration_parameters

\* The configuration_parameters of the MeasurementSignature message a call
\* constructs: the message is new, the field is empty.
MeasurementSignature(previous) == <<>>

\* What GetMetadata returns or raises, in the order of its statements.
GetMetadataOutcome ==
    LET inputs == DataValueMetadataList(input_parameter_list)
        outputs == DataValueMetadataList(output_parameter_list)
        details == UserInterfaceDetails(ui_file_paths)
    IN  IF inputs.state = "raised" THEN DescribeRaises(inputs.raised)
        ELSE IF outputs.state = "raised" THEN DescribeRaises(outputs.raised)
        ELSE IF details.state = "raised" THEN DescribeRaises(details.raised)
        ELSE DescribeReturns(
                 [display_name |-> servicer_v3.display_name,
                  configuration_parameters_message_type |->
                      servicer_v3.configuration_parameters_message_type,
                  inputs |-> inputs.kwargs,
                  outputs |-> outputs.kwargs,
                  configuration_parameters |->
                      MeasurementSignature(describeResult)
                          \o ConfigurationParameters(servicer_v3.configuration_metadata),
                  configuration_defaults |->
                      serialize_default_values(servicer_v3.configuration_metadata),
                  user_interface_details |-> details.kwargs])

\* GetMetadata(request, context) on the servicer.
GetMetadata ==
    /\ servicer_v3.constructed
    /\ describeCalls < MaxDescribes
    /\ describeResult' = GetMetadataOutcome
    /\ describeCalls' = describeCalls + 1
    /\ declaredSinceDescribe' = FALSE
    /\ repeatedDescribe' = (describeCalls >= 1 /\ ~declaredSinceDescribe)
    /\ UNCHANGED <<configuration_parameter_list, input_parameter_list,
                   output_parameter_list, ui_file_paths, servicer_v3>>
    /\ DescribeFrame

DescribeNext ==
    \/ \E parameter \in DeclarableParameters : configuration(parameter)
    \/ \E display_name \in DisplayNames : \E type \in DeclaredMonikerTypes :
           input(display_name, type)
    \/ \E display_name \in DisplayNames : \E type \in DeclaredOutputTypes :
           output(display_name, type)
    \/ ServicerV3Init
    \/ GetMetadata

(***************************************************************************)
(* MeasurementService.listen (measurement/service.py) and                  *)
(* GrpcService.start (_internal/service_manager.py)                        *)
(*                                                                         *)
(* listen() runs under the service's re-entrant _initialization_lock; its  *)
(* steps are the statements that create or change an object. A reference   *)
(* is None (the empty sequence) or the one-element sequence of its object. *)
(***************************************************************************)
MaxListens == 2

None == <<>>

\* The method object an access to self._raise_measurement_method_not_registered
\* creates: Python builds a new bound method object every time the attribute is
\* retrieved from the instance.
BoundMethod(access) ==
    [kind |-> "method", name |-> "_raise_measurement_method_not_registered",
     created_by |-> access]

\* A measurement function given to register_measurement.
Routine == [kind |-> "function", name |-> "measure", created_by |-> "def"]

\* a is b: a and b are the same object.
Is(a, b) == a = b

V3_INTERFACE == "ni.measurementlink.measurement.v3.MeasurementService"

\* The provided interfaces of a .serviceconfig: the v3 interface, or the v1
\* interface that ServiceInfo has as its default.
InterfaceLists ==
    {<<V3_INTERFACE>>, <<"ni.measurementlink.measurement.v1.MeasurementService">>}

\* The port argument of listen(): None or an int; the ephemeral port the server
\* reports is turned into a str.
NonePort == [type |-> "NoneType", value |-> ""]
SpecifiedPort == [type |-> "int", value |-> "50051"]
EphemeralPort == [type |-> "str", value |-> "49152"]
ListenPorts == {NonePort, SpecifiedPort}

\* Truth value of a port: None is false (so is 0, which is not among ListenPorts).
Truthy(port) == port.type # "NoneType"

NoServer == [state |-> "none", servicers |-> <<>>, ports |-> {}]

\* The str "", as the sequence of its pieces.
EmptyStr == <<>>

\* GrpcService.__init__
NewGrpcService(port) ==
    [created |-> TRUE, port |-> port, server |-> NoServer,
     service_location |-> None, registration_id |-> EmptyStr]

\* self._grpc_service = None
NoGrpcService ==
    [created |-> FALSE, port |-> NonePort, server |-> NoServer,
     service_location |-> None, registration_id |-> EmptyStr]

NotListened == [state |-> "none", raised |-> "none", message |-> ""]
ListenRunning == [state |-> "running", raised |-> "none", message |-> ""]
ListenReturns == [state |-> "returned", raised |-> "none", message |-> ""]
ListenRaises(e, message) == [state |-> "raised", raised |-> e, message |-> message]

\* MeasurementService.__init__: no routine is registered, nothing is created.
HostInit ==
    /\ measure_function = BoundMethod("__init__")
    /\ provided_interfaces \in InterfaceLists
    /\ initialization_lock = {}
    /\ channel_pool = None
    /\ discovery_client = None
    /\ grpc_service = NoGrpcService
    /\ serversCreated = 0
    /\ registered = {}
    /\ listenPc = [t \in Threads |-> "idle"]
    /\ listenPort = [t \in Threads |-> NonePort]
    /\ listenResult = [t \in Threads |-> NotListened]
    /\ listenCalls = 0

HostIdle ==
    /\ measure_function = BoundMethod("__init__")
    /\ provided_interfaces = <<V3_INTERFACE>>
    /\ initialization_lock = {}
    /\ channel_pool = None
    /\ discovery_client = None
    /\ grpc_service = NoGrpcService
    /\ serversCreated = 0
    /\ registered = {}
    /\ listenPc = [t \in Threads |-> "idle"]
    /\ listenPort = [t \in Threads |-> NonePort]
    /\ listenResult = [t \in Threads |-> NotListened]
    /\ listenCalls = 0

\* MeasurementService.register_measurement(measurement_function)
register_measurement ==
    /\ measure_function' = Routine
    /\ UNCHANGED <<provided_interfaces, initialization_lock, channel_pool, discovery_client,
                   grpc_service, serversCreated, registered, listenPc, listenPort,
                   listenResult, listenCalls>>
    /\ UNCHANGED stopVars
    /\ HostFrame

\* listen(port) is called by thread t and takes the lock.
ListenEnter(t, port) ==
    /\ listenPc[t] = "idle"
    /\ listenCalls < MaxListens
    /\ initialization_lock = {}
    /\ initialization_lock' = {t}
    /\ listenPc' = [listenPc EXCEPT ![t] = "guard"]
    /\ listenPort' = [listenPort EXCEPT ![t] = port]
    /\ listenResult' = [listenResult EXCEPT ![t] = ListenRunning]
    /\ listenCalls' = listenCalls + 1
    /\ UNCHANGED <<measure_function, provided_interfaces, channel_pool, discovery_client,
                   grpc_service, serversCreated, registered>>
    /\ UNCHANGED stopVars
    /\ HostFrame

\* An exception leaves listen(): the with block releases the lock.
ListenFails(t, e, message) ==
    /\ listenPc' = [listenPc EXCEPT ![t] = "idle"]
    /\ listenResult' = [listenResult EXCEPT ![t] = ListenRaises(e, message)]
    /\ initialization_lock' = {}

\* self._grpc_service is not None, replaced by a check that never finds a service.
ServiceNeverCreated == FALSE

\* self._grpc_service is not None
ServiceCreated == grpc_service.created

\* The two checks of listen(), then self._grpc_service = GrpcService(
\* self.discovery_client, port): reading the discovery_client property creates the
\* discovery client, and with it the channel pool, when there is none.
ListenGuard(t) ==
    /\ listenPc[t] = "guard"
    /\ IF Is(measure_function, BoundMethod("listen"))
       THEN /\ ListenFails(t, "RuntimeError", "Measurement method not registered.")
            /\ UNCHANGED <<channel_pool, discovery_client, grpc_service>>
       ELSE IF ServiceCreated
       THEN /\ ListenFails(t, "RuntimeError", "Measurement service already running.")
            /\ UNCHANGED <<channel_pool, discovery_client, grpc_service>>
       ELSE /\ channel_pool' =
                   IF discovery_client = None /\ channel_pool = None
                   THEN <<"GrpcChannelPool">> ELSE channel_pool
            /\ discovery_client' =
                   IF discovery_client = None THEN <<"DiscoveryClient">> ELSE discovery_client
            /\ grpc_service' = NewGrpcService(listenPort[t])
            /\ listenPc' = [listenPc EXCEPT ![t] = "start"]
            /\ UNCHANGED <<listenResult, initialization_lock>>
    /\ UNCHANGED <<measure_function, provided_interfaces, serversCreated, registered,
                   listenPort, listenCalls>>
    /\ UNCHANGED stopVars
    /\ HostFrame

\* A start that attaches no servicer.
NoServicers(interfaces) == <<>>

\* The servicers GrpcService.start attaches: one per v3 interface that comes
\* before the first interface it does not know.
RECURSIVE AttachedServicers(_)
AttachedServicers(interfaces) ==
    IF interfaces = <<>> \/ Head(interfaces) # V3_INTERFACE
    THEN <<>>
    ELSE <<[configuration_metadata |-> frame_metadata(configuration_parameter_list)]>>
             \o AttachedServicers(Tail(interfaces))

\* GrpcService.start up to the end of its loop over the provided interfaces:
\* the server is created, and each v3 interface gets a servicer attached; any
\* other interface raises ValueError.
StartServer(t) ==
    /\ listenPc[t] = "start"
    /\ serversCreated' = serversCreated + 1
    /\ grpc_service' =
           [grpc_service EXCEPT !.server =
               [state |-> "created",
                servicers |-> AttachedServicers(provided_interfaces),
                ports |-> {}]]
    /\ IF \E i \in 1..Len(provided_interfaces) : provided_interfaces[i] # V3_INTERFACE
       THEN ListenFails(t, "ValueError", "Unknown interface was provided")
       ELSE /\ listenPc' = [listenPc EXCEPT ![t] = "serve"]
            /\ UNCHANGED <<listenResult, initialization_lock>>
    /\ UNCHANGED <<measure_function, provided_interfaces, channel_pool, discovery_client,
                   registered, listenPort, listenCalls>>
    /\ UNCHANGED stopVars
    /\ HostFrame

\* port = self._port or str(self._server.add_insecure_port("[::1]:0"));
\* self._server.start(); self._service_location = ServiceLocation("localhost", port, "")
StartServe(t) ==
    /\ listenPc[t] = "serve"
    /\ LET port == IF Truthy(grpc_service.port) THEN grpc_service.port ELSE EphemeralPort
           ports == IF Truthy(grpc_service.port)
                    THEN grpc_service.server.ports
                    ELSE grpc_service.server.ports \cup {EphemeralPort.value}
       IN  grpc_service' =
               [grpc_service EXCEPT
                   !.server = [@ EXCEPT !.state = "started", !.ports = ports],
                   !.service_location = <<[location |-> "localhost", insecure_port |-> port]>>]
    /\ listenPc' = [listenPc EXCEPT ![t] = "register"]
    /\ UNCHANGED <<measure_function, provided_interfaces, initialization_lock, channel_pool,
                   discovery_client, serversCreated, registered, listenPort, listenResult,
                   listenCalls>>
    /\ UNCHANGED stopVars
    /\ HostFrame

\* What self._discovery_client.register_service(...) can do: return a new
\* registration id, or raise because the discovery service cannot be reached.
RegisterOutcomes == {"returns", "raises"}

\* self._registration_id = self._discovery_client.register_service(service_info,
\* self.service_location); start and listen return and the lock is released.
StartRegister(t, outcome) ==
    /\ listenPc[t] = "register"
    /\ IF outcome = "returns"
       THEN /\ registered' = registered \cup {<<serversCreated>>}
            /\ grpc_service' = [grpc_service EXCEPT !.registration_id = <<serversCreated>>]
            /\ listenPc' = [listenPc EXCEPT ![t] = "idle"]
            /\ listenResult' = [listenResult EXCEPT ![t] = ListenReturns]
            /\ initialization_lock' = {}
       ELSE /\ ListenFails(t, "RpcError", "register_service failed")
            /\ UNCHANGED <<registered, grpc_service>>
    /\ UNCHANGED <<measure_function, provided_interfaces, channel_pool, discovery_client,
                   serversCreated, listenPort, listenCalls>>
    /\ UNCHANGED stopVars
    /\ HostFrame

(***************************************************************************)
(* MeasurementService.close_service and service_location                   *)
(* (measurement/service.py), GrpcService.stop and service_location         *)
(* (_internal/service_manager.py)                                          *)
(***************************************************************************)
MaxStops == 1

\* self._server.stop(5)
StopGrace == 5

NotClosed == [state |-> "none", raised |-> "none", message |-> ""]
CloseServiceRunning == [state |-> "running", raised |-> "none", message |-> ""]
CloseServiceReturns == [state |-> "returned", raised |-> "none", message |-> ""]
CloseServiceRaises(e, message) == [state |-> "raised", raised |-> e, message |-> message]

NotRead == [state |-> "none", raised |-> "none", location |-> None]
LocationReturns(location) == [state |-> "returned", raised |-> "none", location |-> location]
LocationRaises(e) == [state |-> "raised", raised |-> e, location |-> None]

\* No close_service() call and no service_location read was made.
StopInit ==
    /\ stopPc = [t \in Threads |-> "idle"]
    /\ stopRunning = [t \in Threads |-> FALSE]
    /\ stopResult = [t \in Threads |-> NotClosed]
    /\ stopCalls = 0
    /\ unregistered = <<>>
    /\ serverStops = <<>>
    /\ poolsClosed = 0
    /\ locationResult = NotRead

\* The host is running: its server serves and is registered with discovery.
Running ==
    /\ grpc_service.created
    /\ grpc_service.server.state = "started"
    /\ grpc_service.service_location # None
    /\ grpc_service.registration_id \in registered

\* close_service() is called by thread t and takes the lock.
CloseServiceEnter(t) ==
    /\ stopPc[t] = "idle"
    /\ stopCalls < MaxStops
    /\ initialization_lock = {}
    /\ initialization_lock' = {t}
    /\ stopPc' = [stopPc EXCEPT ![t] = "unregister"]
    /\ stopRunning' = [stopRunning EXCEPT ![t] = Running]
    /\ stopResult' = [stopResult EXCEPT ![t] = CloseServiceRunning]
    /\ stopCalls' = stopCalls + 1
    /\ UNCHANGED <<unregistered, serverStops, poolsClosed, locationResult>>
    /\ UNCHANGED <<measure_function, provided_interfaces, channel_pool, discovery_client,
                   grpc_service, serversCreated, registered, listenPc, listenPort,
                   listenResult, listenCalls>>
    /\ HostFrame

\* What self._discovery_client.unregister_service(registration_id) can do: return,
\* or raise because the discovery service cannot be reached.
UnregisterOutcomes == {"returns", "raises"}

\* if self._grpc_service is not None: self._grpc_service.stop(), up to
\* if self._registration_id: self._discovery_client.unregister_service(...).
\* An exception of unregister_service leaves stop() and close_service(): the with
\* block releases the lock.
CloseUnregister(t, outcome) ==
    /\ stopPc[t] = "unregister"
    /\ IF ~grpc_service.created
       THEN /\ stopPc' = [stopPc EXCEPT ![t] = "pool"]
            /\ UNCHANGED <<unregistered, registered, stopResult, initialization_lock>>
       ELSE IF grpc_service.registration_id = EmptyStr
       THEN /\ stopPc' = [stopPc EXCEPT ![t] = "server"]
            /\ UNCHANGED <<unregistered, registered, stopResult, initialization_lock>>
       ELSE /\ unregistered' = Append(unregistered, grpc_service.registration_id)
            /\ IF outcome = "returns"
               THEN /\ registered' = registered \ {grpc_service.registration_id}
                    /\ stopPc' = [stopPc EXCEPT ![t] = "server"]
                    /\ UNCHANGED <<stopResult, initialization_lock>>
               ELSE /\ stopPc' = [stopPc EXCEPT ![t] = "idle"]
                    /\ stopResult' = [stopResult EXCEPT ![t] =
                           CloseServiceRaises("RpcError", "unregister_service failed")]
                    /\ initialization_lock' = {}
                    /\ UNCHANGED registered
    /\ UNCHANGED <<stopRunning, stopCalls, serverStops, poolsClosed, locationResult>>
    /\ UNCHANGED <<measure_function, provided_interfaces, channel_pool, discovery_client,
                   grpc_service, serversCreated, listenPc, listenPort, listenResult,
                   listenCalls>>
    /\ HostFrame

\* if self._server is not None: self._server.stop(5)
CloseStopServer(t) ==
    /\ stopPc[t] = "server"
    /\ IF grpc_service.server.state # "none"
       THEN /\ serverStops' = Append(serverStops, StopGrace)
            /\ grpc_service' = [grpc_service EXCEPT !.server.state = "stopped"]
       ELSE UNCHANGED <<serverStops, grpc_service>>
    /\ stopPc' = [stopPc EXCEPT ![t] = "clear"]
    /\ UNCHANGED <<stopRunning, stopResult, stopCalls, unregistered, poolsClosed,
                   locationResult>>
    /\ UNCHANGED <<measure_function, provided_interfaces, initialization_lock, channel_pool,
                   discovery_client, serversCreated, registered, listenPc, listenPort,
                   listenResult, listenCalls>>
    /\ HostFrame

\* self._registration_id = ""; self._server = None; self._service_location = None
CloseClear(t) ==
    /\ stopPc[t] = "clear"
    /\ grpc_service' = [grpc_service EXCEPT !.registration_id = EmptyStr,
                                            !.server = NoServer,
                                            !.service_location = None]
    /\ stopPc' = [stopPc EXCEPT ![t] = "pool"]
    /\ UNCHANGED <<stopRunning, stopResult, stopCalls, unregistered, serverStops,
                   poolsClosed, locationResult>>
    /\ UNCHANGED <<measure_function, provided_interfaces, initialization_lock, channel_pool,
                   discovery_client, serversCreated, registered, listenPc, listenPort,
                   listenResult, listenCalls>>
    /\ HostFrame

\* if self._channel_pool is not None: self._channel_pool.close(); then
\* self._grpc_service = None; self._channel_pool = None; self._discovery_client = None.
\* close_service() returns and the lock is released.
ClosePool(t) ==
    /\ stopPc[t] = "pool"
    /\ poolsClosed' = IF channel_pool # None THEN poolsClosed + 1 ELSE poolsClosed
    /\ grpc_service' = NoGrpcService
    /\ channel_pool' = None
    /\ discovery_client' = None
    /\ initialization_lock' = {}
    /\ stopPc' = [stopPc EXCEPT ![t] = "idle"]
    /\ stopResult' = [stopResult EXCEPT ![t] = CloseServiceReturns]
    /\ UNCHANGED <<stopRunning, stopCalls, unregistered, serverStops, locationResult>>
    /\ UNCHANGED <<measure_function, provided_interfaces, serversCreated, registered,
                   listenPc, listenPort, listenResult, listenCalls>>
    /\ HostFrame

\* GrpcService.service_location
GrpcServiceLocation ==
    IF grpc_service.service_location = None
    THEN LocationRaises("RuntimeError")
    ELSE LocationReturns(grpc_service.service_location)

\* MeasurementService.service_location, read under the lock by a thread that is
\* in neither listen() nor close_service().
ReadServiceLocation(t) ==
    /\ listenPc[t] = "idle"
    /\ stopPc[t] = "idle"
    /\ initialization_lock = {}
    /\ locationResult' =
           IF ~grpc_service.created THEN LocationRaises("RuntimeError")
           ELSE GrpcServiceLocation
    /\ UNCHANGED <<stopPc, stopRunning, stopResult, stopCalls, unregistered, serverStops,
                   poolsClosed>>
    /\ UNCHANGED hostVars
    /\ HostFrame

HostNext ==
    \/ register_measurement
    \/ \E t \in Threads : \E port \in ListenPorts : ListenEnter(t, port)
    \/ \E t \in Threads : ListenGuard(t)
    \/ \E t \in Threads : StartServer(t)
    \/ \E t \in Threads : StartServe(t)
    \/ \E t \in Threads : \E outcome \in RegisterOutcomes : StartRegister(t, outcome)
    \/ \E t \in Threads : CloseServiceEnter(t)
    \/ \E t \in Threads : \E outcome \in UnregisterOutcomes : CloseUnregister(t, outcome)
    \/ \E t \in Threads : CloseStopServer(t)
    \/ \E t \in Threads : CloseClear(t)
    \/ \E t \in Threads : ClosePool(t)
    \/ \E t \in Threads : ReadServiceLocation(t)

(***************************************************************************)
(* MeasurementService.channel_pool, discovery_client and                   *)
(* session_management_client (measurement/service.py)                      *)
(*                                                                         *)
(* Each property reads its field without the lock, creates the object      *)
(* under the lock when the field was None, and returns what the field      *)
(* holds by then, again without the lock. An object is a record with its   *)
(* class, the number it was created as, and the objects it was given.      *)
(***************************************************************************)
MaxReads == 3

Collaborators == {"channel_pool", "discovery_client", "session_management_client"}

\* GrpcChannelPool()
NewChannelPool(id) ==
    <<[class |-> "GrpcChannelPool", id |-> id,
       grpc_channel_pool |-> None, discovery_client |-> None]>>
\* DiscoveryClient(grpc_channel_pool=self.channel_pool)
NewDiscoveryClient(id, pool) ==
    <<[class |-> "DiscoveryClient", id |-> id,
       grpc_channel_pool |-> pool, discovery_client |-> None]>>
\* SessionManagementClient(discovery_client=self.discovery_client,
\*                         grpc_channel_pool=self.channel_pool)
NewSessionManagementClient(id, client, pool) ==
    <<[class |-> "SessionManagementClient", id |-> id,
       grpc_channel_pool |-> pool, discovery_client |-> client]>>

\* self._<collaborator>
Field(collaborator) ==
    CASE collaborator = "channel_pool" -> channel_pool
      [] collaborator = "discovery_client" -> discovery_client
      [] OTHER -> session_management_client

NoRead == [state |-> "none", collaborator |-> "none", value |-> None, after_close |-> FALSE]

\* MeasurementService.__init__: self._session_management_client = None
CollabInit ==
    /\ session_management_client = None
    /\ poolsCreated = 0
    /\ clientsCreated = 0
    /\ sessionClientsCreated = 0
    /\ readPc = [t \in Threads |-> "idle"]
    /\ readResult = [t \in Threads |-> NoRead]
    /\ readCalls = 0

\* What a step of a property read leaves alone.
ReadFrame ==
    /\ UNCHANGED <<measure_function, provided_interfaces, grpc_service, serversCreated,
                   registered, listenPc, listenPort, listenResult, listenCalls>>
    /\ UNCHANGED stopVars
    /\ UNCHANGED <<loggerVars, contextVars, binderVars, servicerVars, describeVars, rpcVars>>

\* if self._<collaborator> is None:   (read without the lock)
ReadCheck(t, collaborator) ==
    /\ readPc[t] = "idle"
    /\ listenPc[t] = "idle"
    /\ stopPc[t] = "idle"
    /\ readCalls < MaxReads
    /\ readCalls' = readCalls + 1
    /\ readResult' = [readResult EXCEPT ![t] =
           [state |-> "reading", collaborator |-> collaborator, value |-> None,
            after_close |-> \E u \in Threads : stopResult[u] = CloseServiceReturns]]
    /\ readPc' = [readPc EXCEPT ![t] = IF Field(collaborator) = None THEN "acquire"
                                       ELSE "return"]
    /\ UNCHANGED <<channel_pool, discovery_client, session_management_client,
                   initialization_lock, poolsCreated, clientsCreated, sessionClientsCreated>>
    /\ ReadFrame

\* with self._initialization_lock:
ReadAcquire(t) ==
    /\ readPc[t] = "acquire"
    /\ initialization_lock = {}
    /\ initialization_lock' = {t}
    /\ readPc' = [readPc EXCEPT ![t] = "create"]
    /\ UNCHANGED <<channel_pool, discovery_client, session_management_client, readResult,
                   readCalls, poolsCreated, clientsCreated, sessionClientsCreated>>
    /\ ReadFrame

\* What self.channel_pool and self.discovery_client give a thread that holds the
\* lock: the object the field holds, or a new one when it holds None.
EnsuredPool ==
    IF channel_pool = None THEN NewChannelPool(poolsCreated + 1) ELSE channel_pool
EnsuredDiscoveryClient ==
    IF discovery_client = None
    THEN NewDiscoveryClient(clientsCreated + 1, EnsuredPool)
    ELSE discovery_client

\* if self._<collaborator> is None: self._<collaborator> = ...   (under the lock; the
\* properties read for the constructor's arguments re-enter the lock), and the
\* with block is left.
ReadCreate(t) ==
    /\ readPc[t] = "create"
    /\ LET collaborator == readResult[t].collaborator
           create == Field(collaborator) = None
           needsClient == create /\ collaborator # "channel_pool"
       IN  /\ channel_pool' = IF create THEN EnsuredPool ELSE channel_pool
           /\ discovery_client' =
                  IF needsClient THEN EnsuredDiscoveryClient ELSE discovery_client
           /\ session_management_client' =
                  IF create /\ collaborator = "session_management_client"
                  THEN NewSessionManagementClient(sessionClientsCreated + 1,
                                                  EnsuredDiscoveryClient, EnsuredPool)
                  ELSE session_management_client
    /\ poolsCreated' = IF channel_pool' # channel_pool THEN poolsCreated + 1 ELSE poolsCreated
    /\ clientsCreated' =
           IF discovery_client' # discovery_client THEN clientsCreated + 1 ELSE clientsCreated
    /\ sessionClientsCreated' =
           IF session_management_client' # session_management_client
           THEN sessionClientsCreated + 1 ELSE sessionClientsCreated
    /\ initialization_lock' = {}
    /\ readPc' = [readPc EXCEPT ![t] = "return"]
    /\ UNCHANGED <<readResult, readCalls>>
    /\ ReadFrame

\* return self._<collaborator>   (read without the lock)
ReadReturn(t) ==
    /\ readPc[t] = "return"
    /\ readResult' = [readResult EXCEPT ![t] =
           [@ EXCEPT !.state = "returned", !.value = Field(readResult[t].collaborator)]]
    /\ readPc' = [readPc EXCEPT ![t] = "idle"]
    /\ UNCHANGED <<channel_pool, discovery_client, session_management_client,
                   initialization_lock, readCalls, poolsCreated, clientsCreated,
                   sessionClientsCreated>>
    /\ ReadFrame

\* close_service() called by a thread that is not inside a property.
CollabCloseService(t) ==
    /\ readPc[t] = "idle"
    /\ CloseServiceEnter(t)

\* Threads reading the three properties and closing a service that is not hosted.
CollabNext ==
    \/ \E t \in Threads : \E collaborator \in Collaborators : ReadCheck(t, collaborator)
    \/ \E t \in Threads : ReadAcquire(t)
    \/ \E t \in Threads : ReadCreate(t)
    \/ \E t \in Threads : ReadReturn(t)
    \/ \E t \in Threads : CollabCloseService(t)
    \/ \E t \in Threads : \E outcome \in UnregisterOutcomes : CloseUnregister(t, outcome)
    \/ \E t \in Threads : ClosePool(t)

(***************************************************************************)
(* ClientLogger, ServerLogger and the wrappers they return                 *)
(* (grpc/loggers.py)                                                       *)
(*                                                                         *)
(* One call through an interceptor. The logging configuration (the level   *)
(* of the module's logger and whether trace logging is on) is fixed for    *)
(* the call. rpcLog holds, in order, the calls made on the call's          *)
(* _CallLogger that emit something: its construction (start),              *)
(* log_streaming_request, log_streaming_response and _close (complete).    *)
(* close() is taken as one step: each wrapper has one consumer, and its    *)
(* check-and-set is the subject of the _CallLogger component above.        *)
(*                                                                         *)
(* The exceptions a stream, a future or a handler leaves with are          *)
(* instances of Exception, the ones `except Exception` catches.            *)
(***************************************************************************)
MaxItems == 2
MaxPulls == 3

Sides == {"client", "server"}
Shapes == {"unary_unary", "unary_stream", "stream_unary", "stream_stream"}
StreamsRequests(shape) == shape \in {"stream_unary", "stream_stream"}
StreamsResponses(shape) == shape \in {"unary_stream", "stream_stream"}

\* logging levels and Logger.isEnabledFor(level) of the module's _logger.
LogLevels == {"DEBUG", "INFO", "WARNING"}
LevelNo(level) == CASE level = "DEBUG" -> 10 [] level = "INFO" -> 20 [] OTHER -> 30
isEnabledFor(level) == LevelNo(logLevel) <= LevelNo(level)

\* _ClientCallLogger.is_enabled and _ServerCallLogger.is_enabled
is_enabled(side) ==
    IF side = "client"
    THEN isEnabledFor("DEBUG") \/ tracelogging
    ELSE isEnabledFor("INFO") \/ tracelogging

\* Exceptions: the class, the classes it derives from, and what code() and
\* details() return where the class has them.
NoException == [class |-> "NoneType", bases |-> {}, code |-> "none", details |-> "none"]
ValueError == [class |-> "ValueError", bases |-> {"Exception"}, code |-> "none",
               details |-> "none"]
RuntimeError == [class |-> "RuntimeError", bases |-> {"Exception"}, code |-> "none",
                 details |-> "none"]
\* The RpcError the transport raises on a failed call.
TransportRpcError(code) ==
    [class |-> "_MultiThreadedRendezvous", bases |-> {"RpcError", "Exception"},
     code |-> code, details |-> "none"]
CustomRpcError(code, details) ==
    [class |-> "CustomRpcError", bases |-> {"RpcError", "Exception"},
     code |-> code, details |-> details]
isinstance(exception, class) == exception.class = class \/ class \in exception.bases

\* What MeasurementServiceContext.abort(code, details) leaves with when the
\* transport's abort raised r.
AbortException(code, details, r) ==
    IF AbortRaises(r) = "CustomRpcError" THEN CustomRpcError(code, details) ELSE ValueError

\* _get_status_code, as the name of the grpc.StatusCode member.
get_status_code_unknown(exception) ==
    IF exception = NoException THEN "OK" ELSE "UNKNOWN"

get_status_code(exception) ==
    IF exception = NoException THEN "OK"
    ELSE IF isinstance(exception, "RpcError") THEN exception.code
    ELSE "UNKNOWN"

\* str(code) of a grpc.StatusCode member, in two pieces, and str.replace(old, "").
StatusCodeStr(code) == <<"StatusCode.", code>>
Replace(s, old) == SelectSeq(s, LAMBDA piece : piece # old)

\* The calls on the call logger, as entries of rpcLog.
StartEvent == [event |-> "start", exception |-> NoException, responded |-> <<>>]
StreamingRequestAsComplete ==
    [event |-> "complete", exception |-> NoException, responded |-> <<>>]

StreamingRequestEvent ==
    [event |-> "streaming request", exception |-> NoException, responded |-> <<>>]
\* log_streaming_response writing what log_streaming_request writes.
StreamingResponseAsRequest ==
    [event |-> "streaming request", exception |-> NoException, responded |-> <<>>]

StreamingResponseEvent ==
    [event |-> "streaming response", exception |-> NoException, responded |-> <<>>]
\* _ClientCallLogger._close and _ServerCallLogger._close: the server's writes the
\* "responded" line when INFO is enabled.
CompleteEvent(side, exception) ==
    [event |-> "complete", exception |-> exception,
     responded |-> IF side = "server" /\ isEnabledFor("INFO")
                   THEN Replace(StatusCodeStr(get_status_code(exception)), "StatusCode.")
                   ELSE <<>>]

\* _CallLogger.close(exception) on a logger whose _closed is isClosed: the log after it.
close_always(log, isClosed, exception) ==
    Append(log, CompleteEvent(rpcSide, exception))

\* close() called without the exception: `call_logger.close()` in an except clause.
close_without_exception(log, isClosed, exception) ==
    IF isClosed THEN log ELSE Append(log, CompleteEvent(rpcSide, NoException))

close(log, isClosed, exception) ==
    IF isClosed THEN log ELSE Append(log, CompleteEvent(rpcSide, exception))

\* What a continuation, a handler, an accessor or next() does: return a value,
\* raise an exception, or (for next) give an item or raise StopIteration.
Returned(value) ==
    [kind |-> "returns", value |-> value, exception |-> NoException, aborted |-> "none"]
Raised(e) == [kind |-> "raises", value |-> "none", exception |-> e, aborted |-> "none"]
Aborted(code, details, r) ==
    [kind |-> "raises", value |-> "none", exception |-> AbortException(code, details, r),
     aborted |-> code]
Item == [kind |-> "item", value |-> "item", exception |-> NoException, aborted |-> "none"]
StopIteration ==
    [kind |-> "stop", value |-> "none", exception |-> NoException, aborted |-> "none"]

RaisedExceptions ==
    {TransportRpcError(code) : code \in Codes} \cup {ValueError}
\* What the transport or the caller's code raises on the client side, and what a
\* handler raises on the server side, where it can also call abort(). One details
\* string stands for all: nothing in loggers.py reads details().
ClientRaiseOutcomes == {Raised(e) : e \in RaisedExceptions}
RaiseOutcomes ==
    ClientRaiseOutcomes
        \cup {Aborted(code, "d1", r) : code \in Codes, r \in TransportAbortRaises}

\* What an interceptor returned: the continuation's result, wrapped or not.
NoResult == [outcome |-> "none", wrapper |-> "none", inner |-> "none",
             exception |-> NoException]
ContinuationResult(result) ==
    [outcome |-> result.kind, wrapper |-> "none", inner |-> result.value,
     exception |-> result.exception]
Wrap(wrapper, result) == [ContinuationResult(result) EXCEPT !.wrapper = wrapper]

\* `return continuation(...)`: the else branch of every interceptor.
PassThroughWrapped(result) == Wrap("_LoggingResponseCallIterator", result)

PassThrough(result) == ContinuationResult(result)

\* An inner iterator: whether a logging iterator wraps it, how many items it
\* gave, how many times next() was called on it, and what it raised.
NoStream == [state |-> "none", wrapped |-> FALSE, given |-> 0, pulls |-> 0,
             raised |-> NoException]
OpenStream(wrapped) == [NoStream EXCEPT !.state = "open", !.wrapped = wrapped]

\* next(inner): an open iterator gives an item, ends or raises; an exhausted one
\* raises StopIteration again; one that raised raises again or is exhausted.
CanGive(stream, outcome) ==
    /\ stream.pulls < MaxPulls
    /\ CASE stream.state = "open" ->
                \/ outcome = Item /\ stream.given < MaxItems
                \/ outcome = StopIteration
                \/ outcome \in RaiseOutcomes
         [] stream.state = "exhausted" -> outcome = StopIteration
         [] stream.state = "raised" ->
                outcome = StopIteration \/ outcome = Raised(stream.raised)
         [] OTHER -> FALSE

Advance(stream, outcome) ==
    [stream EXCEPT
        !.pulls = @ + 1,
        !.given = IF outcome = Item THEN @ + 1 ELSE @,
        !.state = CASE outcome = Item -> @
                    [] outcome = StopIteration -> IF @ = "open" THEN "exhausted" ELSE @
                    [] OTHER -> "raised",
        !.raised = IF outcome.kind = "raises" THEN outcome.exception ELSE @]

\* How the call ended: the path, the exception it ended with, and the code its
\* handler passed to abort() if it did.
NotEnded == [how |-> "not ended", exception |-> NoException, aborted |-> "none"]
Ended(how, outcome) ==
    [how |-> how, exception |-> outcome.exception, aborted |-> outcome.aborted]

NoAccessors == [calls |-> 0, names |-> {}]

RpcIdle ==
    /\ logLevel = "WARNING"
    /\ tracelogging = FALSE
    /\ rpcSide = "client"
    /\ rpcShape = "none"
    /\ rpcPc = "none"
    /\ enabledChecks = 0
    /\ callLoggers = 0
    /\ rpcClosed = FALSE
    /\ rpcLog = <<>>
    /\ rpcContinuation = NoResult
    /\ rpcReturned = NoResult
    /\ requestStream = NoStream
    /\ responseStream = NoStream
    /\ accessors = NoAccessors
    /\ rpcEnd = NotEnded

\* A call about to enter an interceptor, under any logging configuration.
RpcInit ==
    /\ logLevel \in LogLevels
    /\ tracelogging \in BOOLEAN
    /\ rpcSide \in Sides
    /\ rpcShape = "none"
    /\ rpcPc = "new"
    /\ enabledChecks = 0
    /\ callLoggers = 0
    /\ rpcClosed = FALSE
    /\ rpcLog = <<>>
    /\ rpcContinuation = NoResult
    /\ rpcReturned = NoResult
    /\ requestStream = NoStream
    /\ responseStream = NoStream
    /\ accessors = NoAccessors
    /\ rpcEnd = NotEnded

RpcConfigUnchanged == UNCHANGED <<logLevel, tracelogging, rpcSide>>

ClientWrapper(shape) ==
    IF StreamsResponses(shape) THEN "_LoggingResponseCallIterator"
    ELSE "_LoggingResponseCallFuture"

\* ClientLogger.intercept_unary_unary, intercept_unary_stream, intercept_stream_unary
\* and intercept_stream_stream; result is what the continuation does.
intercept_client(shape, result) ==
    /\ rpcPc = "new"
    /\ rpcSide = "client"
    /\ enabledChecks' = enabledChecks + 1
    /\ rpcShape' = shape
    /\ rpcContinuation' = ContinuationResult(result)
    /\ IF is_enabled("client")
       THEN /\ callLoggers' = callLoggers + 1
            /\ IF result.kind = "returns"
               THEN /\ rpcReturned' = Wrap(ClientWrapper(shape), result)
                    /\ rpcLog' = Append(rpcLog, StartEvent)
                    /\ rpcClosed' = rpcClosed
               ELSE /\ rpcReturned' = ContinuationResult(result)
                    /\ rpcLog' = close(Append(rpcLog, StartEvent), rpcClosed, result.exception)
                    /\ rpcClosed' = TRUE
       ELSE /\ callLoggers' = callLoggers
            /\ rpcReturned' = PassThrough(result)
            /\ UNCHANGED <<rpcLog, rpcClosed>>
    /\ requestStream' = IF StreamsRequests(shape) /\ result.kind = "returns"
                        THEN OpenStream(is_enabled("client")) ELSE NoStream
    /\ responseStream' = IF StreamsResponses(shape) /\ result.kind = "returns"
                         THEN OpenStream(is_enabled("client")) ELSE NoStream
    /\ rpcPc' = IF result.kind = "raises" THEN "ended"
                ELSE IF StreamsResponses(shape) THEN "streaming" ELSE "future"
    /\ rpcEnd' = IF result.kind = "raises" THEN Ended("continuation raised", result)
                 ELSE NotEnded
    /\ UNCHANGED accessors
    /\ RpcConfigUnchanged
    /\ RpcFrame

\* The RpcMethodHandler a continuation returns: None, a handler with one of its
\* four methods set, or one with none set.
Handlers == Shapes \cup {"None", "invalid"}
ServerWrapper(shape) ==
    CASE shape = "unary_unary" -> "_log_unary_unary"
      [] shape = "unary_stream" -> "_log_unary_stream"
      [] shape = "stream_unary" -> "_log_stream_unary"
      [] OTHER -> "_log_stream_stream"

\* ServerLogger.intercept_service
intercept_service(handler) ==
    /\ rpcPc = "new"
    /\ rpcSide = "server"
    /\ enabledChecks' = enabledChecks + 1
    /\ rpcShape' = IF handler \in Shapes THEN handler ELSE "none"
    /\ rpcContinuation' = ContinuationResult(Returned(handler))
    /\ IF is_enabled("server")
       THEN /\ callLoggers' = callLoggers + 1
            /\ rpcLog' = Append(rpcLog, StartEvent)
            /\ rpcReturned' =
                 CASE handler = "None" -> ContinuationResult(Returned(handler))
                   [] handler = "invalid" -> ContinuationResult(Raised(RuntimeError))
                   [] OTHER -> Wrap(ServerWrapper(handler), Returned(handler))
       ELSE /\ callLoggers' = callLoggers
            /\ rpcLog' = rpcLog
            /\ rpcReturned' = PassThrough(Returned(handler))
    /\ rpcPc' = IF handler \in Shapes THEN "intercepted" ELSE "ended"
    /\ rpcEnd' = CASE handler = "None" -> Ended("no handler", Returned(handler))
                   [] handler = "invalid" -> Ended("invalid handler", Returned(handler))
                   [] OTHER -> NotEnded
    /\ UNCHANGED <<rpcClosed, requestStream, responseStream, accessors>>
    /\ RpcConfigUnchanged
    /\ RpcFrame

\* The server calls the handler it was given. _log_unary_unary and
\* _log_stream_unary: `with call_logger:` is entered and the handler function runs.
invoke_unary_handler ==
    /\ rpcPc = "intercepted"
    /\ ~StreamsResponses(rpcShape)
    /\ rpcPc' = "handling"
    /\ requestStream' = IF StreamsRequests(rpcShape)
                        THEN OpenStream(rpcReturned.wrapper # "none") ELSE NoStream
    /\ UNCHANGED <<rpcShape, enabledChecks, callLoggers, rpcClosed, rpcLog, rpcContinuation,
                   rpcReturned, responseStream, accessors, rpcEnd>>
    /\ RpcConfigUnchanged
    /\ RpcFrame

\* __exit__(exc_type, exc_val, traceback): the exception the with block left with.
exc_val_dropped(outcome) == NoException

exc_val(outcome) == IF outcome.kind = "raises" THEN outcome.exception ELSE NoException

\* The handler function of a unary-response call returns or raises, and the with
\* block of _log_unary_unary or _log_stream_unary is left.
handler_finishes(outcome) ==
    /\ rpcPc = "handling"
    /\ rpcPc' = "ended"
    /\ IF rpcReturned.wrapper # "none"
       THEN /\ rpcLog' = close(rpcLog, rpcClosed, exc_val(outcome))
            /\ rpcClosed' = TRUE
       ELSE UNCHANGED <<rpcLog, rpcClosed>>
    /\ rpcEnd' = Ended(IF outcome.kind = "raises" THEN "handler raised" ELSE "handler returned",
                       outcome)
    /\ UNCHANGED <<rpcShape, enabledChecks, callLoggers, rpcContinuation, rpcReturned,
                   requestStream, responseStream, accessors>>
    /\ RpcConfigUnchanged
    /\ RpcFrame

\* _log_unary_stream and _log_stream_stream: the handler function returns its
\* response iterator, or raises.
invoke_stream_handler(outcome) ==
    /\ rpcPc = "intercepted"
    /\ StreamsResponses(rpcShape)
    /\ IF outcome.kind = "returns"
       THEN /\ rpcPc' = "streaming"
            /\ responseStream' = OpenStream(rpcReturned.wrapper # "none")
            /\ requestStream' = IF StreamsRequests(rpcShape)
                                THEN OpenStream(rpcReturned.wrapper # "none") ELSE NoStream
            /\ UNCHANGED <<rpcLog, rpcClosed, rpcEnd>>
       ELSE /\ rpcPc' = "ended"
            /\ IF rpcReturned.wrapper # "none"
               THEN /\ rpcLog' = close(rpcLog, rpcClosed, outcome.exception)
                    /\ rpcClosed' = TRUE
               ELSE UNCHANGED <<rpcLog, rpcClosed>>
            /\ rpcEnd' = Ended("handler raised", outcome)
            /\ UNCHANGED <<requestStream, responseStream>>
    /\ UNCHANGED <<rpcShape, enabledChecks, callLoggers, rpcContinuation, rpcReturned,
                   accessors>>
    /\ RpcConfigUnchanged
    /\ RpcFrame

\* _LoggingRequestIterator.__next__, or next() on the caller's iterator itself
\* when nothing wraps it.
request_next(outcome) ==
    /\ rpcPc \in {"future", "streaming", "handling"}
    /\ CanGive(requestStream, outcome)
    /\ requestStream' = Advance(requestStream, outcome)
    /\ rpcLog' = IF requestStream.wrapped /\ outcome = Item
                 THEN Append(rpcLog, StreamingRequestEvent) ELSE rpcLog
    /\ UNCHANGED <<rpcShape, rpcPc, enabledChecks, callLoggers, rpcClosed, rpcContinuation,
                   rpcReturned, responseStream, accessors, rpcEnd>>
    /\ RpcConfigUnchanged
    /\ RpcFrame

\* close() with no argument: exception is None.
StopIterationException == NoException

\* _LoggingResponseIterator.__next__ and _LoggingResponseCallIterator.__next__, or
\* next() on the inner iterator itself when nothing wraps it.
response_next(outcome) ==
    /\ rpcPc = "streaming"
    /\ outcome.aborted # "none" => rpcSide = "server"
    /\ CanGive(responseStream, outcome)
    /\ responseStream' = Advance(responseStream, outcome)
    /\ IF ~responseStream.wrapped
       THEN UNCHANGED <<rpcLog, rpcClosed>>
       ELSE CASE outcome = Item ->
                    /\ rpcLog' = Append(rpcLog, StreamingResponseEvent)
                    /\ rpcClosed' = rpcClosed
              [] outcome = StopIteration ->
                    /\ rpcLog' = close(rpcLog, rpcClosed, StopIterationException)
                    /\ rpcClosed' = TRUE
              [] OTHER ->
                    /\ rpcLog' = close(rpcLog, rpcClosed, outcome.exception)
                    /\ rpcClosed' = TRUE
    /\ rpcEnd' = IF rpcEnd = NotEnded /\ outcome # Item
                 THEN Ended(IF outcome = StopIteration THEN "stream exhausted"
                            ELSE "stream raised", outcome)
                 ELSE rpcEnd
    /\ UNCHANGED <<rpcShape, rpcPc, enabledChecks, callLoggers, rpcContinuation, rpcReturned,
                   requestStream, accessors>>
    /\ RpcConfigUnchanged
    /\ RpcFrame

\* _LoggingResponseCallFuture.result, exception and traceback, or the inner
\* future's own accessor when nothing wraps it.
Accessors == {"result", "exception", "traceback"}
AccessorOutcomes == {Returned("value")} \cup ClientRaiseOutcomes

future_accessor(name, outcome) ==
    /\ rpcPc = "future"
    /\ accessors.calls < MaxPulls
    /\ accessors' = [calls |-> accessors.calls + 1, names |-> accessors.names \cup {name}]
    /\ IF rpcReturned.wrapper # "none"
       THEN /\ rpcLog' = close(rpcLog, rpcClosed, exc_val(outcome))
            /\ rpcClosed' = TRUE
       ELSE UNCHANGED <<rpcLog, rpcClosed>>
    /\ rpcEnd' = IF rpcEnd = NotEnded
                 THEN Ended(IF outcome.kind = "raises" THEN "accessor raised"
                            ELSE "accessor returned", outcome)
                 ELSE rpcEnd
    /\ UNCHANGED <<rpcShape, rpcPc, enabledChecks, callLoggers, rpcContinuation, rpcReturned,
                   requestStream, responseStream>>
    /\ RpcConfigUnchanged
    /\ RpcFrame

\* The consumer drops the iterator or the future it was given without reaching
\* its end: the wrappers define neither __del__ nor a done callback, so nothing
\* of loggers.py runs.
stops_consuming ==
    /\ rpcPc \in {"future", "streaming"}
    /\ rpcEnd = NotEnded
    /\ rpcPc' = "ended"
    /\ rpcEnd' = Ended("abandoned", StopIteration)
    /\ UNCHANGED <<rpcShape, enabledChecks, callLoggers, rpcClosed, rpcLog, rpcContinuation,
                   rpcReturned, requestStream, responseStream, accessors>>
    /\ RpcConfigUnchanged
    /\ RpcFrame

RpcNext ==
    \/ \E shape \in Shapes : \E result \in {Returned("call")} \cup ClientRaiseOutcomes :
           intercept_client(shape, result)
    \/ \E handler \in Handlers : intercept_service(handler)
    \/ invoke_unary_handler
    \/ \E outcome \in {Returned("value")} \cup RaiseOutcomes : handler_finishes(outcome)
    \/ \E outcome \in {Returned("iterator")} \cup RaiseOutcomes : invoke_stream_handler(outcome)
    \/ \E outcome \in {Item, StopIteration} \cup ClientRaiseOutcomes : request_next(outcome)
    \/ \E outcome \in {Item, StopIteration} \cup RaiseOutcomes : response_next(outcome)
    \/ \E name \in Accessors : \E outcome \in AccessorOutcomes : future_accessor(name, outcome)
    \/ stops_consuming

(***************************************************************************)
(* The specifications. Each starts every component as constructed and      *)
(* takes the steps of one component.                                       *)
(***************************************************************************)
\* Threads closing call loggers.
LoggerSpecInit == LoggerInit /\ ContextInit /\ BinderIdle /\ ServicerIdle /\ DescribeIdle /\ HostIdle /\ StopInit /\ RpcIdle /\ CollabInit
SpecLogger == LoggerSpecInit /\ [][LoggerNext]_vars

\* One MeasurementServiceContext used by the call's thread, the routine's threads
\* and the transport.
ContextSpecInit == LoggerInit /\ ContextInit /\ BinderIdle /\ ServicerIdle /\ DescribeIdle /\ HostIdle /\ StopInit /\ RpcIdle /\ CollabInit
SpecContext == ContextSpecInit /\ [][ContextNext]_vars

\* The binder called with any routine signature and any decoded configuration.
BinderSpecInit == LoggerInit /\ ContextInit /\ BinderInit /\ ServicerIdle /\ DescribeIdle /\ HostIdle /\ StopInit /\ RpcIdle /\ CollabInit
SpecBinder == BinderSpecInit /\ [][BinderNext]_vars

\* Concurrent Measure calls on a servicer with any registered routine and any
\* declared configuration.
MeasureSpecInit ==
    /\ LoggerInit /\ ContextInit /\ ServicerInit
    /\ signature \in Signatures /\ mapping_by_id = <<>> /\ bindResult = Pending
    /\ DescribeIdle /\ HostIdle /\ StopInit /\ RpcIdle /\ CollabInit
SpecMeasure == MeasureSpecInit /\ [][ServicerNext]_vars

\* One Measure call followed from its entry to its end: the steps of Measure taken
\* by the first call alone.
MeasureCallNext ==
    \/ \E k \in {1} : \E req \in Requests : MeasureEnter(k, req)
    \/ \E k \in {1} : validate_parameters(k)
    \/ \E k \in {1} : deserialize_parameters(k)
    \/ \E k \in {1} : MeasureBind(k)
SpecMeasureCall == MeasureSpecInit /\ [][MeasureCallNext]_vars

\* A service on which parameters, inputs and outputs are declared, whose start
\* builds the servicer, and whose GetMetadata is called.
DescribeSpecInit == LoggerInit /\ ContextInit /\ BinderIdle /\ ServicerIdle /\ DescribeInit /\ HostIdle /\ StopInit /\ RpcIdle /\ CollabInit
SpecDescribe == DescribeSpecInit /\ [][DescribeNext]_vars

\* Threads starting the host of a service, with or without a registered routine.
HostSpecInit ==
    /\ LoggerInit /\ ContextInit /\ BinderIdle /\ ServicerIdle /\ DescribeIdle
    /\ HostInit /\ StopInit /\ RpcIdle /\ CollabInit
SpecHost == HostSpecInit /\ [][HostNext]_vars

\* Threads reading the lazily created collaborators of a service and closing it.
CollabSpecInit ==
    /\ LoggerInit /\ ContextInit /\ BinderIdle /\ ServicerIdle /\ DescribeIdle
    /\ HostIdle /\ StopInit /\ RpcIdle /\ CollabInit
SpecCollab == CollabSpecInit /\ [][CollabNext]_vars

\* One call through ClientLogger or ServerLogger, under any logging configuration.
RpcSpecInit ==
    /\ LoggerInit /\ ContextInit /\ BinderIdle /\ ServicerIdle /\ DescribeIdle
    /\ HostIdle /\ StopInit /\ RpcInit /\ CollabInit
SpecRpc == RpcSpecInit /\ [][RpcNext]_vars

\* No close() call on logger l is in progress.
Quiescent(l) == \A t \in Threads : closePc[t] = "idle" \/ closeArg[t].logger # l

(***************************************************************************)
(* C1: close() called M >= 1 times on a CallLogger, with any exception     *)
(* arguments and from any interleaving of threads, runs _close exactly     *)
(* once: never more than one call-complete record, and exactly one as soon *)
(* as no close() call on that logger is still in progress.                 *)
(***************************************************************************)
C1_CloseEmitsExactlyOnce ==
    \A l \in Loggers :
        /\ Len(emitted[l]) <= 1
        /\ (closeCalls[l] >= 1 /\ Quiescent(l)) => Len(emitted[l]) = 1

\* Two close() calls on one logger have both returned and one record exists.
C1_Witness ==
    \E l \in Loggers :
        /\ closeCalls[l] >= 2
        /\ Quiescent(l)
        /\ Len(emitted[l]) = 1

(***************************************************************************)
(* C4: once the context is marked complete, cancel() does not cancel the   *)
(* transport call, and a cancel callback registered from then on is never  *)
(* invoked.                                                                *)
(***************************************************************************)
C4_CancelAfterCompleteNoOp ==
    /\ cancelCall.late => (~cancelCall.invoked /\ cancelCall.pc = "returned")
    /\ \A k \in DOMAIN callbacks :
           callbacks[k].late => callbacks[k].st \in {"registered", "skipped"}

\* cancel() was called on the complete context and has returned, and the transport
\* has invoked a callback that was registered after completion.
C4_Witness ==
    /\ is_complete
    /\ cancelCall.late /\ cancelCall.pc = "returned"
    /\ ~grpcCancelled
    /\ \E k \in DOMAIN callbacks : callbacks[k].late /\ callbacks[k].st = "skipped"

(***************************************************************************)
(* C5: once the context is marked complete, abort(code, details) is a      *)
(* no-op: it neither invokes the transport's abort nor raises.             *)
(***************************************************************************)
C5_AbortAfterCompleteNoOp ==
    (abortCall.made /\ abortCall.late) =>
        (~abortCall.transport /\ abortCall.raised = "none")

(***************************************************************************)
(* C6: under any interleaving of the transport thread running a registered *)
(* cancellation callback and the call's thread marking the context         *)
(* complete, the user's cancel callback is never entered after the context *)
(* was marked complete.                                                    *)
(***************************************************************************)
C6_NoCallbackAfterComplete ==
    \A k \in DOMAIN callbacks : callbacks[k].st = "ran" => ~callbacks[k].ranComplete

\* The binder returned kwargs (it did not raise).
Bound == bindResult.state = "returned"

(***************************************************************************)
(* C7: in the binder's result, a parameter whose annotation names the      *)
(* request stream is bound to the request stream and a parameter whose     *)
(* annotation names the transport context is bound to the context,         *)
(* whatever its position.                                                  *)
(***************************************************************************)
C7_AnnotatedBindingsKept ==
    Bound =>
        \A i \in 1..Len(signature) :
            /\ IsRequestAnnotation(signature[i]) => bindResult.kwargs[i] = RequestIteratorValue
            /\ IsContextAnnotation(signature[i]) => bindResult.kwargs[i] = ContextValue

\* The parameter the design gives the request stream or the context: an annotated
\* one, or by position when no parameter carries that annotation.
IsRequestSlot(sig, i) ==
    \/ IsRequestAnnotation(sig[i])
    \/ ~found_request_iterator(sig) /\ i = 1
IsContextSlot(sig, i) ==
    \/ IsContextAnnotation(sig[i])
    \/ ~IsRequestSlot(sig, i) /\ ~found_context(sig) /\ i = Len(sig)
IsConfigParameter(sig, i) == ~IsRequestSlot(sig, i) /\ ~IsContextSlot(sig, i)

(***************************************************************************)
(* C9: in the binder's result, the k-th parameter (left to right) that is  *)
(* neither the request-stream slot nor the context slot is bound to the    *)
(* decoded value of ordinal k, and no ordinal is bound to two parameters.  *)
(***************************************************************************)
C9_ConfigInOrdinalOrder ==
    Bound =>
        /\ \A i \in 1..Len(signature) :
               IsConfigParameter(signature, i) =>
                   LET k == Cardinality({j \in 1..i : IsConfigParameter(signature, j)})
                   IN  /\ k \in DOMAIN mapping_by_id
                       /\ bindResult.kwargs[i] = ConfigValue(k, mapping_by_id[k])
        /\ \A i, j \in 1..Len(signature) :
               (/\ i # j
                /\ bindResult.kwargs[i].tag = "config"
                /\ bindResult.kwargs[j].tag = "config") => bindResult.kwargs[i].ordinal # bindResult.kwargs[j].ordinal

(***************************************************************************)
(* C10: for every signature of two or more parameters, the binder's result *)
(* has exactly one parameter bound to the request stream and exactly one   *)
(* bound to the transport context.                                         *)
(***************************************************************************)
C10_OneStreamOneContext ==
    (Bound /\ Len(signature) >= 2) =>
        /\ Cardinality({i \in 1..Len(signature) : bindResult.kwargs[i] = RequestIteratorValue}) = 1
        /\ Cardinality({i \in 1..Len(signature) : bindResult.kwargs[i] = ContextValue}) = 1

\* Scenario B: the routine's first parameter has no annotation and no parameter
\* is annotated as the request stream.
ScenarioB(sig) ==
    /\ Len(sig) >= 1
    /\ sig[1] = {}
    /\ ~found_request_iterator(sig)

\* Call k carried a request Measure can read and decode, with a value for every
\* configuration parameter the routine takes.
WellFormedCall(k) ==
    /\ request[k].kind = "message"
    /\ request[k].decodable
    /\ get_mapping_by_parameter_name(request[k].values, signature).state = "returned"

(***************************************************************************)
(* C8: when the registered routine has an unannotated first parameter and  *)
(* no parameter annotated as the request stream, a Measure call that has   *)
(* got past binding has invoked the routine with the request stream bound  *)
(* to that first parameter.                                                *)
(***************************************************************************)
C8_ScenarioBStreamBoundFirst ==
    \A k \in Calls :
        (/\ ScenarioB(signature)
         /\ WellFormedCall(k)
         /\ measurePc[k] \notin {"idle", "validate", "decode", "bind"}) =>
            /\ routineCall[k].state = "returned"
            /\ routineCall[k].kwargs[1] = RequestIteratorValue

(***************************************************************************)
(* C11: a Measure call whose configuration payload declares a type URL     *)
(* other than the expected one, and is otherwise well formed, emits the    *)
(* wrong-message-type warning and still goes on: once it is past binding   *)
(* it has invoked the routine and did not end with an exception.           *)
(***************************************************************************)
C11_MismatchWarnsAndProceeds ==
    \A k \in Calls :
        (/\ WellFormedCall(k)
         /\ ~request[k].type_url_ok
         /\ measurePc[k] \notin {"idle", "validate", "decode", "bind"}) =>
            /\ warned[k]
            /\ measureRaised[k] = "none"
            /\ routineCall[k].state = "returned"

UiFilesAbsolute == \A i \in 1..Len(ui_file_paths) : ui_file_paths[i].absolute

(***************************************************************************)
(* C16: once GetMetadata was called on a servicer built from N declared    *)
(* configuration parameters, it returned a response with exactly N         *)
(* configuration fields, the i-th with field number i and the display      *)
(* name, repeated flag, type, annotations and message type of the i-th     *)
(* declared parameter, and with the defaults encoded per the same ordinal. *)
(***************************************************************************)
C16_ConfigurationFieldsInOrder ==
    (describeCalls >= 1 /\ UiFilesAbsolute) =>
        LET N == Len(servicer_v3.configuration_metadata)
            fields == describeResult.response.configuration_parameters
            defaults == describeResult.response.configuration_defaults
        IN  /\ describeResult.state = "returned"
            /\ Len(fields) = N
            /\ Len(defaults) = N
            /\ \A i \in 1..N :
                   LET parameter == configuration_parameter_list[i]
                   IN  /\ fields[i] = [field_number |-> i,
                                       name |-> parameter.display_name,
                                       repeated |-> parameter.repeated,
                                       type |-> parameter.type,
                                       annotations |-> parameter.annotations,
                                       message_type |-> parameter.message_type]
                       /\ defaults[i] = [field_number |-> i,
                                         value |-> parameter.default_value]

(***************************************************************************)
(* C17: the configuration metadata of every servicer built from N declared *)
(* parameters maps exactly the ordinals 1..N, each once, the i-th declared *)
(* parameter under ordinal i; so no set of ordinals with a gap or a repeat *)
(* is ever accepted.                                                       *)
(***************************************************************************)
C17_OrdinalsContiguous ==
    [][servicer_v3'.constructed =>
          LET metadata == servicer_v3'.configuration_metadata
              N == Len(metadata)
          IN  /\ ~servicer_v3.constructed => N = Len(configuration_parameter_list)
              /\ {metadata[i].key : i \in 1..N} = 1..N
              /\ \A i \in 1..N :
                     /\ metadata[i].key = i
                     /\ metadata[i].value = configuration_parameter_list[i]]_vars

\* A servicer was built from two different declared parameters.
C17_Witness ==
    /\ servicer_v3.constructed
    /\ Len(servicer_v3.configuration_metadata) = 2
    /\ servicer_v3.configuration_metadata[1].value # servicer_v3.configuration_metadata[2].value

\* The descriptors one per entry of a dict of declarations, in declaration order.
DeclaredDescriptors(parameters) ==
    [i \in 1..Len(parameters) |->
        [name |-> parameters[i].key, type_url |-> parameters[i].value]]

(***************************************************************************)
(* C18: once GetMetadata was called, with no declaration made since, it    *)
(* returned one input descriptor per declared input and one output         *)
(* descriptor per declared output, in declaration order, each with the     *)
(* declared display name and the type URL of the declared moniker type.    *)
(***************************************************************************)
C18_DescriptorsPerDeclaration ==
    (describeCalls >= 1 /\ ~declaredSinceDescribe /\ UiFilesAbsolute) =>
        /\ describeResult.state = "returned"
        /\ describeResult.response.inputs = DeclaredDescriptors(input_parameter_list)
        /\ describeResult.response.outputs = DeclaredDescriptors(output_parameter_list)

(***************************************************************************)
(* C19: as long as no routine was ever registered, no listen() call has    *)
(* returned, and no server was created and nothing was registered with the *)
(* discovery service: listen() fails before the host is started.           *)
(***************************************************************************)
C19_ListenFailsWithoutRoutine ==
    measure_function.kind = "method" =>
        /\ \A t \in Threads : listenResult[t].state # "returned"
        /\ serversCreated = 0
        /\ ~grpc_service.created
        /\ registered = {}

(***************************************************************************)
(* C20: a listen() call that reaches its checks while the host is running  *)
(* ends with the "already running" error and leaves the GrpcService (its   *)
(* server, registration id and service location), the number of servers    *)
(* created and the registrations held by discovery as they were.           *)
(***************************************************************************)
C20_ListenWhileRunningRejected ==
    [][\A t \in Threads :
          (listenPc[t] = "guard" /\ listenPc'[t] # "guard" /\ Running) =>
              /\ listenPc'[t] = "idle"
              /\ listenResult'[t] =
                     ListenRaises("RuntimeError", "Measurement service already running.")
              /\ UNCHANGED <<grpc_service, serversCreated, registered>>]_vars

\* A listen() call was rejected as already running; the host still runs its one
\* server under its one registration.
C20_Witness ==
    /\ Running
    /\ serversCreated = 1
    /\ Cardinality(registered) = 1
    /\ \E t \in Threads :
           listenResult[t] =
               ListenRaises("RuntimeError", "Measurement service already running.")

\* The step is one in which unregister_service was called and the registration it
\* was called with is still held by the discovery service: the call failed.
UnregisterFailedStep ==
    /\ Len(unregistered') = Len(unregistered) + 1
    /\ unregistered'[Len(unregistered')] \in registered'

(***************************************************************************)
(* C21: a close_service() call that began on a running host ends by        *)
(* returning, with the host's registration removed from discovery, the     *)
(* server stopped with the grace period, and the server handle,            *)
(* registration id and service location cleared; while no GrpcService      *)
(* exists a service_location read fails, and a listen() call reaching its  *)
(* checks is let through to start the host again.                          *)
(***************************************************************************)
C21_CloseServiceStopsAndClears ==
    [][/\ \A t \in Threads :
              (stopPc[t] # "idle" /\ stopPc'[t] = "idle" /\ stopRunning[t]) =>
                  /\ stopResult'[t] = CloseServiceReturns
                  /\ grpc_service' = NoGrpcService
                  /\ registered' = {}
                  /\ Len(serverStops') >= 1
                  /\ serverStops'[Len(serverStops')] = StopGrace
       /\ (~grpc_service.created /\ locationResult' # locationResult) =>
              locationResult' = LocationRaises("RuntimeError")
       /\ \A t \in Threads :
              (listenPc[t] = "guard" /\ ~grpc_service.created
                   /\ measure_function = Routine) =>
                  listenPc'[t] \in {"guard", "start"}]_vars

(***************************************************************************)
(* C22: a failing unregister_service does not end close_service(): the     *)
(* call goes on to stop the server, and every close_service() call ends    *)
(* with the GrpcService (server handle, registration id, service           *)
(* location), the channel pool and the discovery client cleared.           *)
(***************************************************************************)
C22_UnregisterBestEffort ==
    [][\A t \in Threads :
          /\ (stopPc[t] = "unregister" /\ UnregisterFailedStep) =>
                 (stopPc'[t] = "server" /\ initialization_lock' = {t})
          /\ (stopPc[t] # "idle" /\ stopPc'[t] = "idle") =>
                 /\ grpc_service' = NoGrpcService
                 /\ channel_pool' = None
                 /\ discovery_client' = None]_vars

(***************************************************************************)
(* C23: on a running host the port of the registered service location is a *)
(* port the server is bound to: the port given to listen() when one was    *)
(* given, the ephemeral port of the bind otherwise.                        *)
(***************************************************************************)
C23_BoundToReportedPort ==
    Running =>
        LET port == grpc_service.service_location[1].insecure_port
        IN  /\ port.value \in grpc_service.server.ports
            /\ Truthy(grpc_service.port) => port = grpc_service.port
            /\ ~Truthy(grpc_service.port) => port.value = EphemeralPort.value

\* The records of one kind in the call's log.
Records(log, event) == SelectSeq(log, LAMBDA record : record.event = event)

\* The step appends exactly one record to the call's log: the named event,
\* emitted with the given exception.
Emits(event, exception) ==
    /\ Len(rpcLog') = Len(rpcLog) + 1
    /\ SubSeq(rpcLog', 1, Len(rpcLog)) = rpcLog
    /\ rpcLog'[Len(rpcLog')].event = event
    /\ rpcLog'[Len(rpcLog')].exception = exception

(***************************************************************************)
(* C25: on a response stream wrapped by a logging iterator, client or      *)
(* server side, the pull that first finds the stream exhausted emits the   *)
(* call-complete record with no exception, the pull that first finds it    *)
(* raising emits the record with the exception raised, and a pull made     *)
(* after the stream has ended emits nothing.                               *)
(***************************************************************************)
C25_StreamEndCompletesOnce ==
    [][(responseStream.wrapped /\ responseStream' # responseStream) =>
          /\ (responseStream.state = "open" /\ responseStream'.state = "exhausted") =>
                 Emits("complete", NoException)
          /\ (responseStream.state = "open" /\ responseStream'.state = "raised") =>
                 /\ responseStream'.raised # NoException
                 /\ Emits("complete", responseStream'.raised)
          /\ responseStream.state \in {"exhausted", "raised"} => rpcLog' = rpcLog]_vars

\* A wrapped response stream that gave an item, raised, and was pulled again.
C25_Witness ==
    /\ responseStream.wrapped
    /\ responseStream.state = "raised"
    /\ responseStream.given >= 1
    /\ responseStream.pulls >= responseStream.given + 2
    /\ Len(Records(rpcLog, "complete")) = 1
    /\ Records(rpcLog, "complete")[1].exception = responseStream.raised

(***************************************************************************)
(* C26: on the future a client interceptor returned for a single-response  *)
(* call, the first invocation of result(), exception() or traceback()      *)
(* emits the call-complete record, with no exception when the accessor     *)
(* returned and with the exception when it raised; every later invocation  *)
(* of any accessor emits nothing.                                          *)
(***************************************************************************)
C26_FirstAccessorCompletes ==
    [][(rpcReturned.wrapper = "_LoggingResponseCallFuture" /\ accessors' # accessors) =>
          /\ accessors.calls = 0 =>
                 /\ Emits("complete", rpcEnd'.exception)
                 /\ rpcEnd'.how = "accessor returned" => rpcEnd'.exception = NoException
                 /\ rpcEnd'.how = "accessor raised" => rpcEnd'.exception \in RaisedExceptions
          /\ accessors.calls >= 1 => rpcLog' = rpcLog]_vars

\* A wrapped future whose first accessor raised and on which another accessor
\* was invoked afterwards.
C26_Witness ==
    /\ rpcReturned.wrapper = "_LoggingResponseCallFuture"
    /\ accessors.calls >= 2
    /\ Cardinality(accessors.names) >= 2
    /\ rpcEnd.how = "accessor raised"
    /\ Len(Records(rpcLog, "complete")) = 1
    /\ Records(rpcLog, "complete")[1].exception = rpcEnd.exception

(***************************************************************************)
(* C27: on a request stream wrapped by a logging iterator, a pull that     *)
(* gets an item emits exactly one streaming-request event, so that the     *)
(* events logged are one per item pulled; a pull that finds the stream     *)
(* exhausted or raising emits nothing; and no pull emits the call-complete *)
(* record or closes the call logger.                                       *)
(***************************************************************************)
C27_OneEventPerRequestPulled ==
    [][(requestStream.wrapped /\ requestStream' # requestStream) =>
          /\ requestStream'.given = requestStream.given + 1 =>
                 Emits("streaming request", NoException)
          /\ requestStream'.given = requestStream.given => rpcLog' = rpcLog
          /\ Len(Records(rpcLog', "streaming request")) = requestStream'.given
          /\ Records(rpcLog', "complete") = Records(rpcLog, "complete")
          /\ rpcClosed' = rpcClosed]_vars

\* A wrapped request stream that gave every item and then raised, on a call
\* that is still open.
C27_Witness ==
    /\ requestStream.wrapped
    /\ requestStream.given = MaxItems
    /\ requestStream.state = "raised"
    /\ Len(Records(rpcLog, "streaming request")) = MaxItems
    /\ ~rpcClosed

(***************************************************************************)
(* C28: when call logging is disabled, an interceptor checks is_enabled    *)
(* once, returns what the continuation returned, constructs no call        *)
(* logger, wraps neither the request iterator nor the response iterator    *)
(* or future, and nothing is emitted for the call, however it goes on.     *)
(***************************************************************************)
C28_DisabledIsPassThrough ==
    /\ enabledChecks <= 1
    /\ rpcPc = "new" => (enabledChecks = 0 /\ callLoggers = 0 /\ rpcLog = <<>>)
    /\ rpcPc \notin {"none", "new"} => enabledChecks = 1
    /\ (rpcPc # "none" /\ ~is_enabled(rpcSide)) =>
           /\ callLoggers = 0
           /\ rpcLog = <<>>
           /\ ~requestStream.wrapped
           /\ ~responseStream.wrapped
           /\ rpcPc # "new" =>
                  /\ rpcReturned = rpcContinuation
                  /\ rpcReturned.wrapper = "none"

\* A bidirectional call made with logging disabled, on which requests and
\* responses were pulled.
C28_Witness ==
    /\ ~is_enabled(rpcSide)
    /\ rpcPc = "streaming"
    /\ rpcShape = "stream_stream"
    /\ requestStream.given >= 1
    /\ responseStream.given >= 1
    /\ rpcLog = <<>>

(***************************************************************************)
(* C29: a call whose start was logged and that has ended, on whatever      *)
(* path (the handler returned or raised, the response stream ended or      *)
(* raised, no handler was found for the method, the caller stopped         *)
(* consuming), has exactly one call-complete record.                       *)
(***************************************************************************)
C29_StartedCallCompletes ==
    (Len(Records(rpcLog, "start")) >= 1 /\ rpcEnd # NotEnded) =>
        Len(Records(rpcLog, "complete")) = 1

(***************************************************************************)
(* C30: the line a server call's completion writes names OK when the call  *)
(* ended with no exception, the exception's own status code when it ended  *)
(* with an RpcError (the one abort(code, details) raises carries the code  *)
(* given to abort), and UNKNOWN for any other exception.                   *)
(***************************************************************************)
C30_StatusClassification ==
    (rpcSide = "server" /\ isEnabledFor("INFO")) =>
        \A i \in 1..Len(rpcLog) :
            rpcLog[i].event = "complete" =>
                LET exception == rpcLog[i].exception
                IN  /\ exception = NoException => rpcLog[i].responded = <<"OK">>
                    /\ exception.class \in {"CustomRpcError", "_MultiThreadedRendezvous"} =>
                           rpcLog[i].responded = <<exception.code>>
                    /\ exception.class \in {"ValueError", "RuntimeError"} =>
                           rpcLog[i].responded = <<"UNKNOWN">>
                    /\ (rpcEnd.aborted # "none" /\ exception.class = "CustomRpcError") =>
                           rpcLog[i].responded = <<rpcEnd.aborted>>

\* A server call whose handler called abort(code, details), completed with the
\* code it gave.
C30_Witness ==
    /\ rpcSide = "server"
    /\ isEnabledFor("INFO")
    /\ rpcEnd.how = "handler raised"
    /\ rpcEnd.aborted \in Codes
    /\ rpcEnd.exception.class = "CustomRpcError"
    /\ Len(Records(rpcLog, "complete")) = 1
    /\ Records(rpcLog, "complete")[1].responded = <<rpcEnd.aborted>>

(***************************************************************************)
(* C31: in close(), at most one thread at a time, over all call loggers,   *)
(* is inside the region guarded by the class-wide lock; the threads inside *)
(* it are exactly those at the check and the set of _closed, so _closed    *)
(* is changed only by the thread holding the lock; and a thread emitting   *)
(* the call-complete record does not hold the lock.                        *)
(***************************************************************************)
C31_OnlyCheckAndSetUnderLock ==
    /\ Cardinality(lock) <= 1
    /\ \A t \in Threads :
           /\ t \in lock <=> closePc[t] \in {"check", "set", "release"}
           /\ closePc[t] = "emit" => t \notin lock
           /\ closePc[t] = "set" => (lock = {t} /\ ~closed[closeArg[t].logger])

\* One thread emits a record while another is inside the locked region.
C31_Witness ==
    \E t, u \in Threads :
        /\ closePc[t] = "emit"
        /\ closePc[u] = "check"
        /\ lock = {u}

C33_SerializedByInitializationLock ==
    [][/\ (\/ grpc_service'.server # grpc_service.server
           \/ grpc_service'.registration_id # grpc_service.registration_id
           \/ grpc_service'.service_location # grpc_service.service_location) =>
              \E t \in Threads :
                  /\ initialization_lock = {t}
                  /\ listenPc[t] # "idle" \/ stopPc[t] # "idle"
       /\ locationResult' # locationResult =>
              \/ locationResult' = LocationRaises("RuntimeError")
              \/ /\ locationResult' = LocationReturns(grpc_service.service_location)
                 /\ Running]_vars

(***************************************************************************)
(* C34: when start fails inside listen() (an unknown provided interface,   *)
(* or register_service raising), listen() leaves the host not running:     *)
(* no GrpcService is kept, so that a later listen() is not rejected, and   *)
(* no started server is left behind.                                       *)
(***************************************************************************)
C34_FailedStartLeavesHostStopped ==
    [][\A t \in Threads :
          (listenPc[t] \in {"start", "register"} /\ listenResult'[t].state = "raised") =>
              /\ ~grpc_service'.created
              /\ grpc_service'.server.state # "started"]_vars

(***************************************************************************)
(* C35: under any interleaving of reads of channel_pool, discovery_client  *)
(* and session_management_client with each other and with close_service(), *)
(* every read returns an object, never None, and no more than one channel  *)
(* pool, one discovery client and one session-management client are       *)
(* created per period that a close_service() call ends.                    *)
(***************************************************************************)
C35_CollaboratorsCreatedOnce ==
    [][/\ \A t \in Threads :
              (readPc[t] = "return" /\ readPc'[t] = "idle") => readResult'[t].value # None
       /\ poolsCreated' <= stopCalls' + 1
       /\ clientsCreated' <= stopCalls' + 1
       /\ sessionClientsCreated' <= stopCalls' + 1]_vars

\* The channel pool an object is, or was given when it was created.
HeldPool(ref) ==
    IF ref = None THEN None
    ELSE IF ref[1].class = "GrpcChannelPool" THEN ref
    ELSE ref[1].grpc_channel_pool

(***************************************************************************)
(* C36: a read of channel_pool, discovery_client or                        *)
(* session_management_client that begins after a close_service() call has  *)
(* returned gives no object holding a channel pool that was closed: the    *)
(* pool it holds, if any, is the one the service holds now.                *)
(***************************************************************************)
C36_CollaboratorsDiscardedByClose ==
    [][\A t \in Threads :
          (readPc[t] = "return" /\ readPc'[t] = "idle" /\ readResult[t].after_close) =>
              HeldPool(readResult'[t].value) \in {None, channel_pool'}]_vars

C38_AbortReplacesBareException ==
    [][\A code \in Codes, details \in Details, r \in TransportAbortRaises :
           abort(code, details, r) =>
               /\ abortCall'.raised # "none"
               /\ r = "Exception" =>
                      /\ abortCall'.raised = "CustomRpcError"
                      /\ abortCall'.code = code
                      /\ abortCall'.details = details
               /\ r # "Exception" => abortCall'.raised = r]_vars

\* abort() was called, the transport raised a bare Exception and the caller got a
\* CustomRpcError carrying the code and details of the call.
C38_Witness ==
    /\ abortCall.made /\ abortCall.transport
    /\ abortCall.raised = "CustomRpcError"
    /\ abortCall.code = "FAILED_PRECONDITION"
    /\ abortCall.details = "d2"

(***************************************************************************)
(* C39: in the log of one call whose response stream is pulled by one      *)
(* consumer, every streaming-response record precedes the call-complete    *)
(* record, and the streaming-response records are as many as the items     *)
(* the wrapping iterator has returned.                                     *)
(***************************************************************************)
C39_ResponsesPrecedeCompletion ==
    /\ \A i, j \in DOMAIN rpcLog :
           (rpcLog[i].event = "complete" /\ rpcLog[j].event = "streaming response") => j < i
    /\ responseStream.wrapped =>
           Len(Records(rpcLog, "streaming response")) = responseStream.given
    /\ ~responseStream.wrapped => Records(rpcLog, "streaming response") = <<>>

\* A wrapped response stream returned an item, ended and was pulled once more:
\* the log ends with the call-complete record, the streaming-response records
\* before it.
C39_Witness ==
    /\ responseStream.wrapped
    /\ responseStream.given >= 1
    /\ responseStream.state \in {"exhausted", "raised"}
    /\ responseStream.pulls > responseStream.given + 1
    /\ rpcLog # <<>>
    /\ rpcLog[Len(rpcLog)].event = "complete"
    /\ Len(Records(rpcLog, "streaming response")) = responseStream.given

(***************************************************************************)
(* C40: with call logging enabled, when the continuation of a client       *)
(* interceptor raises, or a server handler with a streamed response raises *)
(* when it is invoked, the call logger of that call is closed with the     *)
(* exception raised, and that same exception is what the caller gets.      *)
(***************************************************************************)
C40_FailedStartClosesLogger ==
    [][/\ \A shape \in Shapes, result \in ClientRaiseOutcomes :
              (is_enabled("client") /\ intercept_client(shape, result)) =>
                  /\ callLoggers' = callLoggers + 1
                  /\ rpcLog' = rpcLog \o <<StartEvent, CompleteEvent("client", result.exception)>>
                  /\ rpcClosed'
                  /\ rpcReturned'.outcome = "raises"
                  /\ rpcReturned'.wrapper = "none"
                  /\ rpcReturned'.exception = result.exception
                  /\ rpcEnd'.exception = result.exception
       /\ \A outcome \in RaiseOutcomes :
              (rpcReturned.wrapper # "none" /\ invoke_stream_handler(outcome)) =>
                  /\ ~rpcClosed
                  /\ Emits("complete", outcome.exception)
                  /\ rpcClosed'
                  /\ rpcEnd'.how = "handler raised"
                  /\ rpcEnd'.exception = outcome.exception]_vars

\* A server handler with a streamed response raised when it was invoked, under a
\* logging interceptor: the call's log is the start and the call-complete record
\* with the exception raised, and the call ended with that exception.
C40_Witness ==
    /\ rpcSide = "server"
    /\ StreamsResponses(rpcShape)
    /\ rpcReturned.wrapper # "none"
    /\ rpcEnd.how = "handler raised"
    /\ rpcEnd.exception # NoException
    /\ rpcClosed
    /\ Len(rpcLog) = 2
    /\ rpcLog[2].event = "complete"
    /\ rpcLog[2].exception = rpcEnd.exception

====
